---- MODULE Spec2Model ----
(***************************************************************************)
(* Command-dispatch engine of JBot: the signature contracts (Function     *)
(* variants of command.py), the command tree (Command variants of         *)
(* command.py) and the dispatcher (command_handler_plugin.py).            *)
(*                                                                         *)
(* Two specifications:                                                     *)
(*   SpecBind - one call of a Function object on a raw argument list      *)
(*   Spec     - one dispatch of a group message through handle()          *)
(***************************************************************************)
EXTENDS Integers, Sequences, FiniteSets, TLC

(***************************************************************************)
(* Bounds of the model.                                                    *)
(***************************************************************************)
\* longest raw_arg_list handed to a Function in SpecBind
MaxArgs == 3
\* longest fixed_param_desc_list of a Function in SpecBind
MaxFixed == 2
\* longest command_part_list (the command name included) in Spec
MaxTokens == 4

(***************************************************************************)
(* Python values.  Optional[T] is a sequence of length at most one:       *)
(* None is the empty one.  Strings built by f-strings are kept as the     *)
(* sequence of their literal and interpolated fragments; the Chinese      *)
(* literals of the replies are rendered in English.                        *)
(***************************************************************************)
None == <<>>
Some(v) == <<v>>
IsNone(o) == o = <<>>

Min(a, b) == IF a <= b THEN a ELSE b

Range(s) == {s[i] : i \in DOMAIN s}

\* the characters of every token of the model's vocabularies
Chars ==
    [t \in {"7", "-3", "x", "1x", "ctrl", "state", "save", "echo", "-h",
            "--help", "del"} |->
        CASE t = "7" -> <<"7">>
          [] t = "-3" -> <<"-", "3">>
          [] t = "x" -> <<"x">>
          [] t = "1x" -> <<"1", "x">>
          [] t = "ctrl" -> <<"c", "t", "r", "l">>
          [] t = "state" -> <<"s", "t", "a", "t", "e">>
          [] t = "save" -> <<"s", "a", "v", "e">>
          [] t = "echo" -> <<"e", "c", "h", "o">>
          [] t = "-h" -> <<"-", "h">>
          [] t = "--help" -> <<"-", "-", "h", "e", "l", "p">>
          [] t = "del" -> <<"d", "e", "l">>]

DigitVal ==
    [c \in {"0", "1", "2", "3", "4", "5", "6", "7", "8", "9"} |->
        CASE c = "0" -> 0 [] c = "1" -> 1 [] c = "2" -> 2 [] c = "3" -> 3
          [] c = "4" -> 4 [] c = "5" -> 5 [] c = "6" -> 6 [] c = "7" -> 7
          [] c = "8" -> 8 [] c = "9" -> 9]

\* converted argument values, tagged with their Python type
StrVal(s) == [type |-> "str", str |-> s, int |-> 0]
IntVal(n) == [type |-> "int", str |-> "", int |-> n]
NoneVal == [type |-> "NoneType", str |-> "", int |-> 0]

RECURSIVE DigitsValue(_)
DigitsValue(ds) ==
    IF ds = <<>> THEN 0
    ELSE 10 * DigitsValue(SubSeq(ds, 1, Len(ds) - 1)) + DigitVal[ds[Len(ds)]]

\* int(raw): an optional sign followed by at least one digit
IntOf(raw) ==
    LET cs == Chars[raw]
        signed == cs # <<>> /\ cs[1] \in {"-", "+"}
        ds == IF signed THEN Tail(cs) ELSE cs
        ok == ds # <<>> /\ \A i \in DOMAIN ds : ds[i] \in DOMAIN DigitVal
    IN  IF ~ok THEN [ok |-> FALSE, val |-> NoneVal]
        ELSE [ok |-> TRUE,
              val |-> IntVal(IF signed /\ cs[1] = "-"
                             THEN 0 - DigitsValue(ds) ELSE DigitsValue(ds))]

\* type_(raw) inside try/except: ok is FALSE when the constructor raises
Convert(type_, raw) ==
    IF type_ = "int" THEN IntOf(raw) ELSE [ok |-> TRUE, val |-> StrVal(raw)]

\* repr() of a string
Repr(s) == "'" \o s \o "'"

(***************************************************************************)
(* ReturnValue                                                             *)
(***************************************************************************)
ReturnValue(code, log, reply, report, need_help) ==
    [code |-> code, log |-> log, reply |-> reply, report |-> report,
     need_help |-> need_help]

\* what a handler may return in the model
HandlerReturns ==
    {ReturnValue(0, None, Some(<<"ok">>), None, FALSE),
     ReturnValue(2, Some(<<"handler failed">>), None, Some(<<"report">>), TRUE)}

(***************************************************************************)
(* Function objects: [variant, fixed_param_desc_list, optional_param_desc,*)
(* variable_param_desc]; a parameter description is <<name, type, desc>>. *)
(***************************************************************************)
FunctionWithFixedParams(fixed) ==
    [variant |-> "Fixed", fixed_param_desc_list |-> fixed,
     optional_param_desc |-> None, variable_param_desc |-> None]
FunctionWithOptionalParam(fixed, opt) ==
    [variant |-> "Optional", fixed_param_desc_list |-> fixed,
     optional_param_desc |-> opt, variable_param_desc |-> None]
FunctionWithVariableParams(fixed, var) ==
    [variant |-> "Variable", fixed_param_desc_list |-> fixed,
     optional_param_desc |-> None, variable_param_desc |-> var]

\* result of one __call__: was func called, with which arguments, how many
\* conversions were attempted, and the value returned to the dispatcher
CallResult(invoked, args, attempts, ret) ==
    [invoked |-> invoked, args |-> args, attempts |-> attempts, ret |-> ret]

\* the loop "for raw, desc in zip(raws, descs): try: append(desc[1](raw))":
\* failed = 0 when every conversion succeeded, else the index that raised
RECURSIVE ConvertLoop(_, _, _, _)
ConvertLoop(raws, descs, i, acc) ==
    IF i > Min(Len(raws), Len(descs))
    THEN [failed |-> 0, converted |-> acc, attempts |-> i - 1]
    ELSE LET c == Convert(descs[i][2], raws[i])
         IN  IF c.ok
             THEN ConvertLoop(raws, descs, i + 1, Append(acc, c.val))
             ELSE [failed |-> i, converted |-> acc, attempts |-> i]

\* the six ReturnValue(1, ..., need_help=True) results of the __call__s
InvalidArgumentNumber(expected_log, expected_reply, k) ==
    ReturnValue(1,
        Some(<<"Invalid argument number: expected ">> \o expected_log
             \o <<", got ", ToString(k)>>),
        Some(<<"wrong argument number: needs ">> \o expected_reply
             \o <<" arguments, but got ", ToString(k)>>),
        None, TRUE)

\* InvalidArgument without the request for help
InvalidArgument_NoHelp(desc, raw) ==
    ReturnValue(1,
        Some(<<"Invalid argument: expected ", desc[2], ", got ", Repr(raw)>>),
        Some(<<"wrong argument type: parameter ", desc[1], " is ", desc[2],
               ", but got ", Repr(raw)>>),
        None, FALSE)

InvalidArgument(desc, raw) ==
    ReturnValue(1,
        Some(<<"Invalid argument: expected ", desc[2], ", got ", Repr(raw)>>),
        Some(<<"wrong argument type: parameter ", desc[1], " is ", desc[2],
               ", but got ", Repr(raw)>>),
        None, TRUE)

InvalidArgumentOptional(desc, raw) ==
    ReturnValue(1,
        Some(<<"Invalid argument: expected Optional[", desc[2], "], got ",
               Repr(raw)>>),
        Some(<<"wrong argument type: parameter ", desc[1], " is Optional[",
               desc[2], "], but got ", Repr(raw)>>),
        None, TRUE)

\* the argument-number tests: TRUE when __call__ goes on to the conversions
\* FixedCountOk testing only for too few arguments
FixedCountOk_AtLeast(n, k) == ~(k < n)
FixedCountOk(n, k) == k = n
OptionalCountOk(n, k) == ~(k < n)
\* VariableCountOk with the test left out
VariableCountOk_Always(n, k) == TRUE
VariableCountOk(n, k) == ~(k < n)

\* FunctionWithFixedParams.__call__
FixedCall(function, raw_arg_list, handler_ret) ==
    LET descs == function.fixed_param_desc_list
        n == Len(descs)
        k == Len(raw_arg_list)
        loop == ConvertLoop(raw_arg_list, descs, 1, <<>>)
    IN  IF ~FixedCountOk(n, k)
        THEN CallResult(FALSE, <<>>, 0,
                InvalidArgumentNumber(<<ToString(n)>>, <<ToString(n)>>, k))
        ELSE IF loop.failed # 0
        THEN CallResult(FALSE, <<>>, loop.attempts,
                InvalidArgument(descs[loop.failed], raw_arg_list[loop.failed]))
        ELSE CallResult(TRUE, loop.converted, loop.attempts, handler_ret)

\* OptionalRawArg taking the first raw argument
OptionalRawArg_First(raw_arg_list, n) == raw_arg_list[1]
\* which raw argument the optional parameter is converted from
OptionalRawArg(raw_arg_list, n) == raw_arg_list[Len(raw_arg_list)]

\* FunctionWithOptionalParam.__call__
OptionalCall(function, raw_arg_list, handler_ret) ==
    LET descs == function.fixed_param_desc_list
        opt == function.optional_param_desc
        n == Len(descs)
        k == Len(raw_arg_list)
        loop == ConvertLoop(SubSeq(raw_arg_list, 1, Min(n, k)), descs, 1, <<>>)
        raw_opt == OptionalRawArg(raw_arg_list, n)
        c == Convert(opt[2], raw_opt)
    IN  IF ~OptionalCountOk(n, k)
        THEN CallResult(FALSE, <<>>, 0,
                InvalidArgumentNumber(<<ToString(n), " or ", ToString(n + 1)>>,
                                      <<ToString(n), " or ", ToString(n + 1)>>,
                                      k))
        ELSE IF loop.failed # 0
        THEN CallResult(FALSE, <<>>, loop.attempts,
                InvalidArgument(descs[loop.failed], raw_arg_list[loop.failed]))
        ELSE IF k > n
        THEN IF c.ok
             THEN CallResult(TRUE, Append(loop.converted, c.val),
                             loop.attempts + 1, handler_ret)
             ELSE CallResult(FALSE, <<>>, loop.attempts + 1,
                             InvalidArgumentOptional(opt, raw_opt))
        ELSE CallResult(TRUE, Append(loop.converted, NoneVal), loop.attempts,
                        handler_ret)

\* FunctionWithVariableParams.__call__
VariableCall(function, raw_arg_list, handler_ret) ==
    LET descs == function.fixed_param_desc_list
        var == function.variable_param_desc
        n == Len(descs)
        k == Len(raw_arg_list)
        loop == ConvertLoop(SubSeq(raw_arg_list, 1, Min(n, k)), descs, 1, <<>>)
        rest == SubSeq(raw_arg_list, n + 1, k)
        vloop == ConvertLoop(rest, [i \in 1..Len(rest) |-> var], 1,
                             loop.converted)
    IN  IF ~VariableCountOk(n, k)
        THEN CallResult(FALSE, <<>>, 0,
                InvalidArgumentNumber(<<"at least ", ToString(n)>>,
                                      <<"at least ", ToString(n)>>, k))
        ELSE IF loop.failed # 0
        THEN CallResult(FALSE, <<>>, loop.attempts,
                InvalidArgument(descs[loop.failed], raw_arg_list[loop.failed]))
        ELSE IF vloop.failed # 0
        THEN CallResult(FALSE, <<>>, loop.attempts + vloop.attempts,
                InvalidArgument(var, rest[vloop.failed]))
        ELSE CallResult(TRUE, vloop.converted, loop.attempts + vloop.attempts,
                        handler_ret)

\* function(plugin, raw_arg_list)
Call(function, raw_arg_list, handler_ret) ==
    CASE function.variant = "Fixed" ->
            FixedCall(function, raw_arg_list, handler_ret)
      [] function.variant = "Optional" ->
            OptionalCall(function, raw_arg_list, handler_ret)
      [] function.variant = "Variable" ->
            VariableCall(function, raw_arg_list, handler_ret)

(***************************************************************************)
(* The command tree.  A node is named by its identifier; limited_roles    *)
(* and full_name are the fields the constructors set.                     *)
(***************************************************************************)
Nodes == {"ctrl", "state", "save", "echo"}

CommandTree ==
    [c \in Nodes |->
        CASE c = "ctrl" ->
                [class |-> "RootCommand", name |-> "ctrl",
                 desc |-> "control commands",
                 subcommand_list |-> <<"state", "echo">>, function |-> None]
          [] c = "state" ->
                [class |-> "InternalCommand", name |-> "state",
                 desc |-> "state commands",
                 subcommand_list |-> <<"save">>, function |-> None]
          [] c = "save" ->
                [class |-> "LeafCommand", name |-> "save",
                 desc |-> "save the state",
                 subcommand_list |-> <<>>,
                 function |-> Some(FunctionWithOptionalParam(<<>>,
                                <<"course_name", "str", "name of the course">>))]
          [] c = "echo" ->
                [class |-> "LeafCommand", name |-> "echo",
                 desc |-> "echo words a number of times",
                 subcommand_list |-> <<>>,
                 function |-> Some(FunctionWithVariableParams(
                                <<<<"n", "int", "the number">>>>,
                                <<"word", "str", "a word to echo">>))]]

\* the plugin's class attribute `command`
RootNode == "ctrl"

\* isinstance(c, InternalCommand): RootCommand is a subclass
IsInternalCommand(c) == CommandTree[c].class \in {"InternalCommand", "RootCommand"}
IsLeafCommand(c) == CommandTree[c].class = "LeafCommand"

\* Command.__init__ followed by the stamping pass of RootCommand.__init__
RECURSIVE UpdateFullName(_, _, _)
UpdateFullName(names, c, parent_full_name) ==
    LET mine == parent_full_name \o " " \o CommandTree[c].name
        subs == CommandTree[c].subcommand_list
        F[i \in 0..Len(subs)] ==
            IF i = 0 THEN [names EXCEPT ![c] = mine]
            ELSE UpdateFullName(F[i - 1], subs[i], mine)
    IN  F[Len(subs)]

RootCommandInit ==
    LET subs == CommandTree[RootNode].subcommand_list
        base == [c \in Nodes |-> CommandTree[c].name]
        F[i \in 0..Len(subs)] ==
            IF i = 0 THEN base
            ELSE UpdateFullName(F[i - 1], subs[i], CommandTree[RootNode].name)
    IN  F[Len(subs)]

(***************************************************************************)
(* Roles                                                                   *)
(***************************************************************************)
RoleNames == {"admin", "user"}

\* config.role_to_qq_uin_set_map
role_to_qq_uin_set_map ==
    [r \in RoleNames |-> IF r = "admin" THEN {1, 2} ELSE {2, 3}]

\* the senders of the model
UserIds == {1, 2, 3, 4}

\* _get_roles giving every role that has any identity configured
GetRoles_AnyIdentity(user_id) ==
    {r \in DOMAIN role_to_qq_uin_set_map : role_to_qq_uin_set_map[r] # {}}

\* _get_roles
GetRoles(user_id) ==
    {r \in DOMAIN role_to_qq_uin_set_map : user_id \in role_to_qq_uin_set_map[r]}

\* the values of limited_roles a node is constructed with
LimitedRolesChoices == {None, Some({}), Some({"admin"})}

\* the test "c.limited_roles and not (c.limited_roles & roles)" of
\* _parse_command: a set is falsy when it is None or empty
RoleDenied(lr, rs) ==
    (~IsNone(lr) /\ lr[1] # {}) /\ ~((lr[1] \cap rs) # {})

\* the test "(c.limited_roles is None) or (roles & c.limited_roles)" of the
\* help_info assertions and of the sub-command filter
RolePermitted(lr, rs) == IsNone(lr) \/ (rs \cap lr[1]) # {}

(***************************************************************************)
(* Help texts                                                              *)
(***************************************************************************)
\* sep.join(pieces), every piece a sequence of fragments
RECURSIVE Join(_, _)
Join(pieces, sep) ==
    IF pieces = <<>> THEN <<>>
    ELSE IF Len(pieces) = 1 THEN pieces[1]
    ELSE pieces[1] \o <<sep>> \o Join(Tail(pieces), sep)

ParamInline(desc) == <<"<", desc[1], ":", desc[2], ">">>
ParamDescLine(desc) == <<"* ", desc[1], ": ", desc[3]>>

\* Function.get_param_inline of the three variants
GetParamInline(f) ==
    LET fixed == Join([i \in DOMAIN f.fixed_param_desc_list |->
                          ParamInline(f.fixed_param_desc_list[i])], " ")
    IN  CASE f.variant = "Fixed" -> fixed
          [] f.variant = "Optional" ->
                fixed \o <<"[">> \o ParamInline(f.optional_param_desc) \o <<"]">>
          [] f.variant = "Variable" ->
                fixed \o <<"[">> \o ParamInline(f.variable_param_desc)
                      \o <<" ...]">>

\* Function.get_param_desc of the three variants
GetParamDesc(f) ==
    LET fixed == Join([i \in DOMAIN f.fixed_param_desc_list |->
                          ParamDescLine(f.fixed_param_desc_list[i])], "\n")
        tail == IF f.variant = "Optional"
                THEN ParamDescLine(f.optional_param_desc)
                ELSE ParamDescLine(f.variable_param_desc)
    IN  IF f.variant = "Fixed" THEN fixed
        ELSE IF fixed # <<>> THEN fixed \o <<"\n">> \o tail ELSE tail

\* ListedSubcommands without the role filter
ListedSubcommands_All(c, rs, lroles) == CommandTree[c].subcommand_list
\* ListedSubcommands filtered by the test of _parse_command
ListedSubcommands_Denied(c, rs, lroles) ==
    SelectSeq(CommandTree[c].subcommand_list,
              LAMBDA sub : ~RoleDenied(lroles[sub], rs))
\* the sub-commands InternalCommand.help_info lists, in declaration order
ListedSubcommands(c, rs, lroles) ==
    SelectSeq(CommandTree[c].subcommand_list,
              LAMBDA sub : RolePermitted(lroles[sub], rs))

\* help_info(roles) of InternalCommand and of LeafCommand: raised is TRUE
\* when the assert at its top fails
HelpInfo(c, rs, lroles, fnames) ==
    IF ~RolePermitted(lroles[c], rs) THEN [raised |-> TRUE, text |-> <<>>]
    ELSE IF IsInternalCommand(c)
    THEN [raised |-> FALSE,
          text |-> <<fnames[c], "\n", CommandTree[c].desc, "\n",
                     "sub-command list:\n">>
                   \o Join([i \in DOMAIN ListedSubcommands(c, rs, lroles) |->
                              LET sub == ListedSubcommands(c, rs, lroles)[i]
                              IN  <<"* ", CommandTree[sub].name, ": ",
                                    CommandTree[sub].desc>>], "\n")]
    ELSE LET f == CommandTree[c].function[1]
             param_desc == GetParamDesc(f)
         IN  [raised |-> FALSE,
              text |-> <<fnames[c], " ">> \o GetParamInline(f) \o <<"\n">>
                       \o (IF param_desc # <<>>
                           THEN <<"parameter list:\n">> \o param_desc
                           ELSE <<"this command takes no parameters">>)]

(***************************************************************************)
(* State                                                                   *)
(***************************************************************************)
VARIABLES
    \* the command tree's fields set at construction
    limited_roles, full_name,
    \* config.report_gid
    report_gid,
    \* the dispatch in progress: where handle() is, the event's sender and
    \* message, the locals of handle() and of _parse_command
    pc, user_id, roles, command_part_list,
    current_command, subcommand_idx,
    command, raw_args, permission_denied, ret,
    \* what the dispatch did: replies sent, log records, reports forwarded,
    \* handler calls, nodes the walk made current
    replies, logs, reports, invoked, visited,
    \* one call of a Function object (SpecBind)
    bpc, function, raw_arg_list, call,
    \* the event rule() looks at (SpecLine): the text of its message, its
    \* group, and config.limited_group_id_set
    message, group_id, limited_group_id_set,
    \* the construction of a RootCommand (SpecBuild): the nodes given to the
    \* constructors, the calls of _update_full_name still to run, innermost
    \* first, and how often each node was stamped
    tree, calls, stamps,
    \* the loading of plugin classes (SpecLoad): the class definitions
    \* executed so far, and NYAPlugin.registered_nyaplugin_list
    classes, registered_nyaplugin_list,
    \* the construction of a Function object (SpecConstruct): the parameters
    \* of the handler given as func, and the outcome of every run of _check
    func, checks,
    \* dispatches in flight together (SpecPair): the frames of the handle()
    \* calls that are not running, and the order in which the event loop ran
    \* them
    frames, schedule,
    \* the schedule plugin (SpecSchedule): its state object, and the last
    \* call of one of its handlers
    state, handled,
    \* calls of an MSContestManager in flight together (SpecLogin): its
    \* fields logged_in and login_lock, where each call is in its wrappers,
    \* and what the calls did so far
    logged_in, login_lock, tasks, seen,
    \* one call of fetch_player_list or fetch_game_record_list (SpecFetch):
    \* what the server holds, and the locals of the call
    server, fetch,
    \* one call of weighted_call (SpecProb): the weights of its argument
    \* groups, and its locals
    weighted_args, draw

treeVars == <<limited_roles, full_name, report_gid>>
dispatchVars ==
    <<pc, user_id, roles, command_part_list, current_command, subcommand_idx,
      command, raw_args, permission_denied, ret, replies, logs, reports,
      invoked, visited>>
bindVars == <<bpc, function, raw_arg_list, call>>
lineVars == <<message, group_id, limited_group_id_set>>
\* the variables of the specifications beside Spec and SpecBind
buildVars == <<tree, calls, stamps>>
loadVars == <<classes, registered_nyaplugin_list>>
checkVars == <<func, checks>>
pairVars == <<frames, schedule>>
scheduleVars == <<state, handled>>
\* the variables of the specifications after SpecBuild
loginVars == <<logged_in, login_lock, tasks, seen>>
fetchVars == <<server, fetch>>
probVars == <<weighted_args, draw>>
\* the variables of the specifications after SpecSchedule
lastVars == <<loginVars, fetchVars, probVars>>
laterVars == <<loadVars, checkVars, pairVars, scheduleVars, lastVars>>
restVars == <<lineVars, buildVars, laterVars>>
vars == <<treeVars, dispatchVars, bindVars, restVars>>

NoReturn == ReturnValue(0, None, None, None, FALSE)
NoCall == CallResult(FALSE, <<>>, 0, NoReturn)

\* sequences over S of length at most n
SeqUpTo(S, n) == UNION {[1..m -> S] : m \in 0..n}

\* words a message may hold after the command name
Words == {"state", "save", "echo", "-h", "--help", "del", "7"}
\* HelpFlags without the long form
HelpFlags_Short == {"-h"}
HelpFlags == {"-h", "--help"}

\* Python's s[i:] for a 0-based i
From(s, i) == SubSeq(s, i + 1, Len(s))

TreeInit ==
    /\ limited_roles \in [Nodes -> LimitedRolesChoices]
    /\ full_name = RootCommandInit
    /\ report_gid \in {None, Some(10)}

DispatchIdle ==
    /\ pc = "idle"
    /\ user_id = 0
    /\ roles = {}
    /\ command_part_list = <<>>
    /\ current_command = RootNode
    /\ subcommand_idx = 0
    /\ command = RootNode
    /\ raw_args = <<>>
    /\ permission_denied = FALSE
    /\ ret = NoReturn
    /\ replies = <<>>
    /\ logs = <<>>
    /\ reports = <<>>
    /\ invoked = <<>>
    /\ visited = <<>>

BindIdle ==
    /\ bpc = "idle"
    /\ function = FunctionWithFixedParams(<<>>)
    /\ raw_arg_list = <<>>
    /\ call = NoCall

\* no event is before rule()
LineIdle ==
    /\ message = <<>>
    /\ group_id = 0
    /\ limited_group_id_set = None

\* no RootCommand is under construction
BuildIdle ==
    /\ tree = <<>>
    /\ calls = <<>>
    /\ stamps = <<>>

LoadIdle ==
    /\ classes = <<>>
    /\ registered_nyaplugin_list = <<>>

CheckIdle ==
    /\ func = <<>>
    /\ checks = <<>>

PairIdle ==
    /\ frames = <<>>
    /\ schedule = <<>>

ScheduleIdle ==
    /\ state = <<>>
    /\ handled = <<>>

LoginIdle ==
    /\ logged_in = FALSE
    /\ login_lock = <<>>
    /\ tasks = <<>>
    /\ seen = <<>>

FetchIdle ==
    /\ server = <<>>
    /\ fetch = <<>>

ProbIdle ==
    /\ weighted_args = <<>>
    /\ draw = <<>>

\* the specifications after SpecSchedule at rest
LastIdle == LoginIdle /\ FetchIdle /\ ProbIdle

\* the specifications after SpecBuild at rest
LaterIdle == LoadIdle /\ CheckIdle /\ PairIdle /\ ScheduleIdle /\ LastIdle

RestIdle == LineIdle /\ BuildIdle /\ LaterIdle

Init == TreeInit /\ DispatchIdle /\ BindIdle /\ RestIdle

(***************************************************************************)
(* The dispatcher: rule() accepted the event, handle() runs.              *)
(***************************************************************************)
LogRecord(level, event, detail) ==
    [level |-> level, event |-> event, detail |-> detail]

\* truthiness of an Optional[str] and of an Optional[int]
TruthyStr(o) == ~IsNone(o) /\ o[1] # <<>>
TruthyInt(o) == ~IsNone(o) /\ o[1] # 0

\* PermissionDeniedReply naming the node by its own name only
PermissionDeniedReply_Name(c) ==
    <<Repr(CommandTree[c].name), ": permission denied">>
PermissionDeniedReply(c) == <<Repr(full_name[c]), ": permission denied">>
InvalidSubcommandReply(c, sub) ==
    <<Repr(full_name[c]), ": invalid sub-command ", Repr(sub)>>

\* handle(), up to the call of _parse_command
Receive ==
    /\ pc = "idle"
    /\ \E uid \in UserIds, words \in SeqUpTo(Words, MaxTokens - 1) :
          /\ user_id' = uid
          /\ roles' = GetRoles(uid)
          /\ command_part_list' = <<CommandTree[RootNode].name>> \o words
    /\ pc' = "parse"
    /\ logs' = <<LogRecord("info", "Event handling", <<>>)>>
    /\ UNCHANGED <<current_command, subcommand_idx, command, raw_args,
                   permission_denied, ret, replies, reports, invoked, visited,
                   treeVars, bindVars, restVars>>

\* handle() has returned or raised: the plugin instance is dropped and the
\* next event gets a fresh one
Finish ==
    /\ pc \in {"done", "raised"}
    /\ pc' = "idle"
    /\ user_id' = 0
    /\ roles' = {}
    /\ command_part_list' = <<>>
    /\ current_command' = RootNode
    /\ subcommand_idx' = 0
    /\ command' = RootNode
    /\ raw_args' = <<>>
    /\ permission_denied' = FALSE
    /\ ret' = NoReturn
    /\ replies' = <<>>
    /\ logs' = <<>>
    /\ reports' = <<>>
    /\ invoked' = <<>>
    /\ visited' = <<>>
    /\ UNCHANGED <<treeVars, bindVars, restVars>>

\* "return c, args, denied" of _parse_command, received by handle()
ParseReturn(c, args, denied) ==
    /\ command' = c
    /\ raw_args' = args
    /\ permission_denied' = denied
    /\ pc' = "parsed"
    /\ UNCHANGED <<user_id, roles, command_part_list, ret, replies, logs,
                   reports, invoked, treeVars, bindVars, restVars>>

\* the sub-command of c named word, if any
NextCommand(c, word) ==
    LET found == SelectSeq(CommandTree[c].subcommand_list,
                           LAMBDA sub : CommandTree[sub].name = word)
    IN  IF found = <<>> THEN None ELSE Some(found[1])

\* _parse_command: the check of the plugin's command itself
ParseRootDenied ==
    /\ pc = "parse"
    /\ RoleDenied(limited_roles[RootNode], roles)
    /\ ParseReturn(RootNode, From(command_part_list, 1), TRUE)
    /\ UNCHANGED <<current_command, subcommand_idx, visited>>

ParseStart ==
    /\ pc = "parse"
    /\ ~RoleDenied(limited_roles[RootNode], roles)
    /\ current_command' = RootNode
    /\ subcommand_idx' = 1
    /\ visited' = <<RootNode>>
    /\ pc' = "walk"
    /\ UNCHANGED <<user_id, roles, command_part_list, command, raw_args,
                   permission_denied, ret, replies, logs, reports, invoked,
                   treeVars, bindVars, restVars>>

\* _parse_command: one iteration of the while loop, by the way it ends
ParseIncomplete ==
    /\ pc = "walk"
    /\ IsInternalCommand(current_command)
    /\ subcommand_idx = Len(command_part_list)
    /\ ParseReturn(current_command, <<>>, FALSE)
    /\ UNCHANGED <<current_command, subcommand_idx, visited>>

ParseNoMatch ==
    /\ pc = "walk"
    /\ IsInternalCommand(current_command)
    /\ subcommand_idx # Len(command_part_list)
    /\ IsNone(NextCommand(current_command,
                          command_part_list[subcommand_idx + 1]))
    /\ ParseReturn(current_command, From(command_part_list, subcommand_idx),
                   FALSE)
    /\ UNCHANGED <<current_command, subcommand_idx, visited>>

\* ParseChildDenied returning the leftover from the denied sub-command's own
\* token on
ParseChildDenied_KeepName ==
    /\ pc = "walk"
    /\ IsInternalCommand(current_command)
    /\ subcommand_idx # Len(command_part_list)
    /\ LET next == NextCommand(current_command,
                               command_part_list[subcommand_idx + 1])
       IN  /\ ~IsNone(next)
           /\ RoleDenied(limited_roles[next[1]], roles)
           /\ ParseReturn(next[1],
                          From(command_part_list, subcommand_idx), TRUE)
    /\ UNCHANGED <<current_command, subcommand_idx, visited>>

ParseChildDenied ==
    /\ pc = "walk"
    /\ IsInternalCommand(current_command)
    /\ subcommand_idx # Len(command_part_list)
    /\ LET next == NextCommand(current_command,
                               command_part_list[subcommand_idx + 1])
       IN  /\ ~IsNone(next)
           /\ RoleDenied(limited_roles[next[1]], roles)
           /\ ParseReturn(next[1],
                          From(command_part_list, subcommand_idx + 1), TRUE)
    /\ UNCHANGED <<current_command, subcommand_idx, visited>>

ParseDescend ==
    /\ pc = "walk"
    /\ IsInternalCommand(current_command)
    /\ subcommand_idx # Len(command_part_list)
    /\ LET next == NextCommand(current_command,
                               command_part_list[subcommand_idx + 1])
       IN  /\ ~IsNone(next)
           /\ ~RoleDenied(limited_roles[next[1]], roles)
           /\ current_command' = next[1]
           /\ visited' = Append(visited, next[1])
    /\ subcommand_idx' = subcommand_idx + 1
    /\ UNCHANGED <<pc, user_id, roles, command_part_list, command, raw_args,
                   permission_denied, ret, replies, logs, reports, invoked,
                   treeVars, bindVars, restVars>>

\* _parse_command: the return after the loop
ParseLeaf ==
    /\ pc = "walk"
    /\ ~IsInternalCommand(current_command)
    /\ ParseReturn(current_command, From(command_part_list, subcommand_idx),
                   FALSE)
    /\ UNCHANGED <<current_command, subcommand_idx, visited>>

\* HandleFrame with the full_name of the returned node reset to its name
HandleFrame_Restamp ==
    /\ full_name' = [full_name EXCEPT ![command] = CommandTree[command].name]
    /\ UNCHANGED <<user_id, roles, command_part_list, current_command,
                   subcommand_idx, command, raw_args, permission_denied,
                   visited, limited_roles, report_gid, bindVars, restVars>>
\* what every branch of handle() leaves alone
HandleFrame ==
    UNCHANGED <<user_id, roles, command_part_list, current_command,
                subcommand_idx, command, raw_args, permission_denied, visited,
                treeVars, bindVars, restVars>>

\* "await self.event.reply(command.help_info(roles))" as the last statement
\* of a branch, after the replies sent so far
ReplyHelpAndReturn(sent) ==
    LET help == HelpInfo(command, roles, limited_roles, full_name)
    IN  IF help.raised
        THEN replies' = sent /\ pc' = "raised"
        ELSE replies' = Append(sent, help.text) /\ pc' = "done"

\* handle(): if permission_denied
HandleDenied ==
    /\ pc = "parsed"
    /\ permission_denied
    /\ logs' = Append(logs, LogRecord("error", "Permission denied: ",
                                      <<full_name[command]>>))
    /\ replies' = Append(replies, PermissionDeniedReply(command))
    /\ pc' = "done"
    /\ UNCHANGED <<ret, reports, invoked>>
    /\ HandleFrame

\* handle(): not a LeafCommand, no raw_args
HandleIncomplete ==
    /\ pc = "parsed"
    /\ ~permission_denied
    /\ ~IsLeafCommand(command)
    /\ raw_args = <<>>
    /\ logs' = Append(logs, LogRecord("error", "Incomplete command: ",
                                      <<full_name[command]>>))
    /\ ReplyHelpAndReturn(replies)
    /\ UNCHANGED <<ret, reports, invoked>>
    /\ HandleFrame

\* handle(): not a LeafCommand, help requested
HandleInternalHelp ==
    /\ pc = "parsed"
    /\ ~permission_denied
    /\ ~IsLeafCommand(command)
    /\ raw_args # <<>>
    /\ raw_args[1] \in HelpFlags
    /\ ReplyHelpAndReturn(replies)
    /\ UNCHANGED <<ret, logs, reports, invoked>>
    /\ HandleFrame

\* handle(): not a LeafCommand, wrong sub-command
HandleInvalidSubcommand ==
    /\ pc = "parsed"
    /\ ~permission_denied
    /\ ~IsLeafCommand(command)
    /\ raw_args # <<>>
    /\ raw_args[1] \notin HelpFlags
    /\ logs' = Append(logs, LogRecord("error", "Invalid command: ",
                                      <<full_name[command], raw_args[1]>>))
    /\ ReplyHelpAndReturn(
          Append(replies, InvalidSubcommandReply(command, raw_args[1])))
    /\ UNCHANGED <<ret, reports, invoked>>
    /\ HandleFrame

\* handle(): a LeafCommand, help requested
HandleLeafHelp ==
    /\ pc = "parsed"
    /\ ~permission_denied
    /\ IsLeafCommand(command)
    /\ raw_args # <<>>
    /\ raw_args[1] \in HelpFlags
    /\ ReplyHelpAndReturn(replies)
    /\ UNCHANGED <<ret, logs, reports, invoked>>
    /\ HandleFrame

\* handle(): ret = command.function(self, raw_args), awaited, for a handler
\* that returns one of rets
\* HandleInvokeWith calling the handler a second time after a ReturnValue of
\* code other than 0
HandleInvokeWith_Retry(rets) ==
    /\ pc = "parsed"
    /\ ~permission_denied
    /\ IsLeafCommand(command)
    /\ ~(raw_args # <<>> /\ raw_args[1] \in HelpFlags)
    /\ \E handler_ret \in rets :
          LET r == Call(CommandTree[command].function[1], raw_args,
                        handler_ret)
              made == [command |-> command, args |-> r.args]
          IN  /\ ret' = r.ret
              /\ invoked' = IF ~r.invoked THEN invoked
                            ELSE IF r.ret.code # 0
                            THEN invoked \o <<made, made>>
                            ELSE Append(invoked, made)
    /\ pc' = "returned"
    /\ UNCHANGED <<replies, logs, reports>>
    /\ HandleFrame

HandleInvokeWith(rets) ==
    /\ pc = "parsed"
    /\ ~permission_denied
    /\ IsLeafCommand(command)
    /\ ~(raw_args # <<>> /\ raw_args[1] \in HelpFlags)
    /\ \E handler_ret \in rets :
          LET r == Call(CommandTree[command].function[1], raw_args,
                        handler_ret)
          IN  /\ ret' = r.ret
              /\ invoked' = IF r.invoked
                            THEN Append(invoked, [command |-> command,
                                                  args |-> r.args])
                            ELSE invoked
    /\ pc' = "returned"
    /\ UNCHANGED <<replies, logs, reports>>
    /\ HandleFrame

HandleInvoke == HandleInvokeWith(HandlerReturns)

\* ResultLog writing r.log at info level whatever r.code is
ResultLog_Info(r) ==
    IF TruthyStr(r.log)
    THEN <<LogRecord("info", "Message: ", r.log[1])>>
    ELSE <<>>
\* the log record handle() writes for a ReturnValue, if any
ResultLog(r) ==
    IF r.code # 0
    THEN IF TruthyStr(r.log)
         THEN <<LogRecord("error", "Error occurred: ", r.log[1])>>
         ELSE <<LogRecord("error", "Unknown error occurred", <<>>)>>
    ELSE IF TruthyStr(r.log)
         THEN <<LogRecord("info", "Message: ", r.log[1])>>
         ELSE <<>>

\* ResultReply sending r.reply only for a ReturnValue of code 0
ResultReply_OnSuccess(r) ==
    IF TruthyStr(r.reply) /\ r.code = 0 THEN <<r.reply[1]>> ELSE <<>>
\* "if ret.reply: await self.event.reply(ret.reply)"
ResultReply(r) == IF TruthyStr(r.reply) THEN <<r.reply[1]>> ELSE <<>>

\* NYAPlugin.report: the messages sent to the report group
Report(report_text, gid) ==
    IF ~TruthyInt(gid) THEN <<>>
    ELSE <<[group_id |-> gid[1], message |-> report_text]>>

\* ResultReport forwarding whether or not a report group is configured
ResultReport_Always(r, gid) ==
    IF TruthyStr(r.report)
    THEN <<[group_id |-> IF IsNone(gid) THEN 0 ELSE gid[1],
            message |-> r.report[1]]>>
    ELSE <<>>
\* "if ret.report and self.config.report_gid: await self.report(...)"
ResultReport(r, gid) ==
    IF TruthyStr(r.report) /\ TruthyInt(gid)
    THEN Report(r.report[1], gid)
    ELSE <<>>

\* "if ret.need_help: await self.event.reply(command.help_info(roles))",
\* for the outcome help of help_info
ResultHelp(r, help) ==
    IF r.need_help /\ ~help.raised THEN <<help.text>> ELSE <<>>

\* handle(): the interpretation of ret
HandleResult ==
    /\ pc = "returned"
    /\ LET sent == replies \o ResultReply(ret)
           help == HelpInfo(command, roles, limited_roles, full_name)
           raises == ret.need_help /\ help.raised
       IN  /\ reports' = reports \o ResultReport(ret, report_gid)
           /\ replies' = sent \o ResultHelp(ret, help)
           /\ logs' = logs \o ResultLog(ret)
                      \o (IF raises THEN <<>>
                          ELSE <<LogRecord("info", "Event finished", <<>>)>>)
           /\ pc' = IF raises THEN "raised" ELSE "done"
    /\ UNCHANGED <<ret, invoked>>
    /\ HandleFrame

Next ==
    \/ Receive
    \/ ParseRootDenied
    \/ ParseStart
    \/ ParseIncomplete
    \/ ParseNoMatch
    \/ ParseChildDenied
    \/ ParseDescend
    \/ ParseLeaf
    \/ HandleDenied
    \/ HandleIncomplete
    \/ HandleInternalHelp
    \/ HandleInvalidSubcommand
    \/ HandleLeafHelp
    \/ HandleInvoke
    \/ HandleResult
    \/ Finish

Spec == Init /\ [][Next]_vars

(***************************************************************************)
(* SpecBind: one Function object called once on one raw argument list.    *)
(***************************************************************************)
TypeNames == {"str", "int"}
RawArgs == {"7", "-3", "x", "1x"}

\* the description of the i-th fixed parameter of a modelled Function
FixedDesc(i, type_) == <<"p" \o ToString(i), type_, "a parameter">>

FixedDescLists ==
    {[i \in DOMAIN types |-> FixedDesc(i, types[i])] :
        types \in SeqUpTo(TypeNames, MaxFixed)}

Functions ==
    {FunctionWithFixedParams(fixed) : fixed \in FixedDescLists}
    \cup {FunctionWithOptionalParam(fixed, <<"opt", t, "the optional one">>) :
            fixed \in FixedDescLists, t \in TypeNames}
    \cup {FunctionWithVariableParams(fixed, <<"var", t, "the repeated one">>) :
            fixed \in FixedDescLists, t \in TypeNames}

BindInit ==
    /\ limited_roles = [c \in Nodes |-> None]
    /\ full_name = RootCommandInit
    /\ report_gid = None
    /\ DispatchIdle
    /\ RestIdle
    /\ bpc = "ready"
    /\ function \in Functions
    /\ raw_arg_list \in SeqUpTo(RawArgs, MaxArgs)
    /\ call = NoCall

CallFunction(variant) ==
    /\ bpc = "ready"
    /\ function.variant = variant
    /\ \E handler_ret \in HandlerReturns :
          call' = Call(function, raw_arg_list, handler_ret)
    /\ bpc' = "returned"
    /\ UNCHANGED <<function, raw_arg_list, treeVars, dispatchVars, restVars>>

CallFixedParams == CallFunction("Fixed")
CallOptionalParam == CallFunction("Optional")
CallVariableParams == CallFunction("Variable")

NextBind == CallFixedParams \/ CallOptionalParam \/ CallVariableParams

SpecBind == BindInit /\ [][NextBind]_vars

(***************************************************************************)
(* Properties of the signature contracts (checked under SpecBind)         *)
(***************************************************************************)
Returned == bpc = "returned"
NumFixed == Len(function.fixed_param_desc_list)
NumRaw == Len(raw_arg_list)

\* the converted value of the i-th raw argument as a fixed parameter
FixedValue(i) == Convert(function.fixed_param_desc_list[i][2], raw_arg_list[i])
FixedConvertible(m) == \A i \in 1..m : FixedValue(i).ok
IsArgumentError(r) == r.code = 1 /\ r.need_help

\* C3: a FunctionWithFixedParams with n descriptions calls its handler, with
\* the converted raw arguments in order, if and only if exactly n raw
\* arguments are given and each converts to the type of its description;
\* every other call returns ReturnValue(1, need_help=True) without calling it.
C3_FixedBinding ==
    (Returned /\ function.variant = "Fixed") =>
        /\ call.invoked <=> (NumRaw = NumFixed /\ FixedConvertible(NumFixed))
        /\ call.invoked =>
              call.args = [i \in 1..NumFixed |-> FixedValue(i).val]
        /\ ~call.invoked => IsArgumentError(call.ret)

\* a fixed contract of two parameters, one of them an int, was bound
C3_Witness ==
    /\ Returned
    /\ function.variant = "Fixed"
    /\ call.invoked
    /\ Len(call.args) = 2
    /\ \E i \in 1..2 : call.args[i].type = "int" /\ call.args[i].int # 0

\* C4: a FunctionWithOptionalParam with n fixed descriptions treats fewer
\* than n and more than n+1 raw arguments as an argument error
\* (ReturnValue(1, need_help=True)) and does not call its handler then.
C4_OptionalTokenCount ==
    (Returned /\ function.variant = "Optional"
        /\ (NumRaw < NumFixed \/ NumRaw > NumFixed + 1)) =>
        ~call.invoked /\ IsArgumentError(call.ret)

\* C5: a FunctionWithOptionalParam with n fixed descriptions and convertible
\* raw arguments calls its handler with the n converted fixed arguments
\* followed by None when given exactly n raw arguments, and followed by the
\* converted (n+1)-th raw argument when given exactly n+1.
C5_OptionalBinding ==
    (Returned /\ function.variant = "Optional") =>
        /\ (NumRaw = NumFixed /\ FixedConvertible(NumFixed)) =>
              /\ call.invoked
              /\ call.args = [i \in 1..NumFixed + 1 |->
                                IF i <= NumFixed THEN FixedValue(i).val
                                ELSE NoneVal]
        /\ (NumRaw = NumFixed + 1 /\ FixedConvertible(NumFixed)
               /\ Convert(function.optional_param_desc[2],
                          raw_arg_list[NumFixed + 1]).ok) =>
              /\ call.invoked
              /\ call.args = [i \in 1..NumFixed + 1 |->
                                IF i <= NumFixed THEN FixedValue(i).val
                                ELSE Convert(function.optional_param_desc[2],
                                             raw_arg_list[NumFixed + 1]).val]

\* the optional int parameter was bound after one fixed parameter, from a
\* raw argument that differs from the first one
C5_Witness ==
    /\ Returned
    /\ function.variant = "Optional"
    /\ call.invoked
    /\ NumFixed = 1
    /\ NumRaw = 2
    /\ raw_arg_list[1] # raw_arg_list[2]
    /\ call.args[2].type = "int"

\* the type the i-th raw argument of a FunctionWithVariableParams call is
\* converted to
VariableType(i) ==
    IF i <= NumFixed THEN function.fixed_param_desc_list[i][2]
    ELSE function.variable_param_desc[2]

\* C6: a FunctionWithVariableParams with n fixed descriptions, given k >= n
\* convertible raw arguments, calls its handler with the n converted fixed
\* arguments followed by the k-n others, each converted and in order; given
\* k < n raw arguments it returns ReturnValue(1, need_help=True) without
\* calling it.
C6_VariadicBinding ==
    (Returned /\ function.variant = "Variable") =>
        /\ (NumRaw >= NumFixed
               /\ \A i \in 1..NumRaw :
                     Convert(VariableType(i), raw_arg_list[i]).ok) =>
              /\ call.invoked
              /\ call.args = [i \in 1..NumRaw |->
                                Convert(VariableType(i), raw_arg_list[i]).val]
        /\ NumRaw < NumFixed => ~call.invoked /\ IsArgumentError(call.ret)

\* one fixed and two repeated arguments were bound
C6_Witness ==
    /\ Returned
    /\ function.variant = "Variable"
    /\ call.invoked
    /\ NumFixed = 1
    /\ Len(call.args) = 3
    /\ call.args[2] # call.args[3]

\* the conversions a call makes when none fails, in order: the description
\* and the raw argument of each
Conversions ==
    LET fixed == [i \in 1..Min(NumFixed, NumRaw) |->
                    [desc |-> function.fixed_param_desc_list[i],
                     raw |-> raw_arg_list[i]]]
    IN  CASE function.variant = "Fixed" -> fixed
          [] function.variant = "Optional" ->
                IF NumRaw > NumFixed
                THEN Append(fixed, [desc |-> function.optional_param_desc,
                                    raw |-> raw_arg_list[NumRaw]])
                ELSE fixed
          [] function.variant = "Variable" ->
                fixed \o [j \in 1..(NumRaw - NumFixed) |->
                            [desc |-> function.variable_param_desc,
                             raw |-> raw_arg_list[NumFixed + j]]]

\* the call gets past its argument-number test
PassesNumberTest ==
    IF function.variant = "Fixed" THEN NumRaw = NumFixed
    ELSE NumRaw >= NumFixed

Fails(cv) == ~Convert(cv.desc[2], cv.raw).ok

\* the first conversion that fails, 0 if none does
FirstFailure ==
    IF \E j \in DOMAIN Conversions : Fails(Conversions[j])
    THEN CHOOSE j \in DOMAIN Conversions :
            /\ Fails(Conversions[j])
            /\ \A h \in 1..(j - 1) : ~Fails(Conversions[h])
    ELSE 0

\* a failing conversion stops the call at the first one that fails: the
\* handler is not called and the result is an argument error whose reply
\* names the parameter and the raw value, and whose log names the raw value
ConversionFailureStops ==
    LET cv == Conversions[FirstFailure]
    IN  /\ ~call.invoked
        /\ call.args = <<>>
        /\ call.attempts = FirstFailure
        /\ IsArgumentError(call.ret)
        /\ ~IsNone(call.ret.log) /\ ~IsNone(call.ret.reply)
        /\ {cv.desc[1], Repr(cv.raw)} \subseteq Range(call.ret.reply[1])
        /\ Repr(cv.raw) \in Range(call.ret.log[1])

\* C7 as stated: in the three variants a raw argument that fails to convert
\* stops the binding at the first such argument, the handler is not called,
\* and the result is ReturnValue(1, need_help=True) whose log and reply both
\* name the offending parameter and the raw value.
C7_Original ==
    (Returned /\ PassesNumberTest /\ FirstFailure # 0) =>
        /\ ConversionFailureStops
        /\ Conversions[FirstFailure].desc[1] \in Range(call.ret.log[1])

\* C7 as the code has it: as above, but only the reply names the parameter;
\* the log names the expected type and the raw value.
C7_ConversionFailure ==
    (Returned /\ PassesNumberTest /\ FirstFailure # 0) =>
        /\ ConversionFailureStops
        /\ Conversions[FirstFailure].desc[2] \in Range(call.ret.log[1])

\* the second repeated argument failed to convert after two conversions
\* succeeded
C7_Witness ==
    /\ Returned
    /\ function.variant = "Variable"
    /\ NumFixed = 1
    /\ FirstFailure = 3
    /\ ~call.invoked

(***************************************************************************)
(* Properties of the dispatcher (checked under Spec)                      *)
(***************************************************************************)
\* the parent of a node other than the root, and the path from the root
Parent(c) ==
    CHOOSE p \in Nodes : c \in Range(CommandTree[p].subcommand_list)
RECURSIVE PathTo(_)
PathTo(c) == IF c = RootNode THEN <<c>> ELSE Append(PathTo(Parent(c)), c)

\* the caller's roles do not intersect the node's limited_roles
NotIntersecting(c) ==
    ~IsNone(limited_roles[c]) /\ (limited_roles[c][1] \cap roles) = {}

\* _parse_command has returned to handle()
Parsed == pc \in {"parsed", "returned", "done", "raised"}
\* handle() is over, by return or by an exception
Over == pc \in {"done", "raised"}

\* C1: a caller whose roles do not intersect a node's limited_roles is denied
\* at that node and the walk reaches no descendant of it, whatever tokens
\* follow; so a handler is called only if the caller passed the role check
\* of every node from the root to its LeafCommand.
C1_PermissionShortCircuit ==
    /\ \A i \in DOMAIN visited :
          \A a \in Range(PathTo(visited[i])) : ~NotIntersecting(a)
    /\ \A j \in DOMAIN invoked :
          \A a \in Range(PathTo(invoked[j].command)) : ~NotIntersecting(a)

\* C2: the dispatcher permits a node if and only if its limited_roles is
\* None or the caller holds a role of limited_roles, for every set value of
\* limited_roles, the empty set included.
C2_PermissionModel ==
    /\ \A i \in DOMAIN visited :
          IsNone(limited_roles[visited[i]])
            \/ (roles \cap limited_roles[visited[i]][1]) # {}
    /\ (Parsed /\ permission_denied) =>
          ~(IsNone(limited_roles[command])
              \/ (roles \cap limited_roles[command][1]) # {})

\* C8: when _parse_command returns denied, handle() sends exactly one reply,
\* the permission-denied message naming the node's full_name, logs the
\* denial, calls no handler, sends no help text and returns.
C8_Denial ==
    permission_denied =>
        /\ pc \in {"parsed", "done"}
        /\ invoked = <<>>
        /\ reports = <<>>
        /\ pc = "parsed" => replies = <<>>
        /\ pc = "done" =>
              /\ replies = <<<<Repr(full_name[command]),
                               ": permission denied">>>>
              /\ \E i \in DOMAIN logs :
                    /\ logs[i].level = "error"
                    /\ logs[i].event = "Permission denied: "
                    /\ full_name[command] \in Range(logs[i].detail)

\* a caller was denied at a LeafCommand two levels down, and told so
C8_Witness ==
    /\ pc = "done"
    /\ permission_denied
    /\ command = "save"
    /\ Len(replies) = 1

\* the walk stopped at current_command, an InternalCommand
StoppedAtInternal ==
    /\ Parsed
    /\ visited # <<>>
    /\ ~permission_denied
    /\ IsInternalCommand(current_command)

\* C9: when the walk is at an InternalCommand and none of its sub-commands
\* is named by the next token, _parse_command returns it with the tokens
\* from that one on, not denied; unless that token is -h or --help, handle()
\* replies with an invalid-sub-command message naming the token, then with
\* the node's help, and calls no handler.
C9_UnknownSubcommand ==
    (StoppedAtInternal /\ subcommand_idx < Len(command_part_list)) =>
        LET word == command_part_list[subcommand_idx + 1]
        IN  /\ IsNone(NextCommand(current_command, word))
            /\ command = current_command
            /\ raw_args = From(command_part_list, subcommand_idx)
            /\ (Over /\ word \notin HelpFlags) =>
                  /\ pc = "done"
                  /\ invoked = <<>>
                  /\ Len(replies) = 2
                  /\ replies[1] = <<Repr(full_name[command]),
                                    ": invalid sub-command ", Repr(word)>>
                  /\ replies[2] = HelpInfo(command, roles, limited_roles,
                                           full_name).text

\* C10: when the tokens run out while the walk is at an InternalCommand the
\* caller is permitted for, _parse_command returns it with no arguments, not
\* denied, and handle() replies with exactly its help text, which lists the
\* sub-commands the caller's roles permit, and calls no handler.
C10_IncompleteCommand ==
    (StoppedAtInternal /\ subcommand_idx = Len(command_part_list)
        /\ RolePermitted(limited_roles[current_command], roles)) =>
        /\ command = current_command
        /\ raw_args = <<>>
        /\ Over =>
              /\ pc = "done"
              /\ invoked = <<>>
              /\ replies = <<HelpInfo(command, roles, limited_roles,
                                      full_name).text>>
              /\ full_name[command] = replies[1][1]
              /\ \A sub \in Range(CommandTree[command].subcommand_list) :
                    CommandTree[sub].desc \in Range(replies[1])
                      <=> RolePermitted(limited_roles[sub], roles)

\* "ctrl state" got the help of state, without the sub-command the caller
\* has no role for
C10_Witness ==
    /\ pc = "done"
    /\ command = "state"
    /\ command_part_list = <<"ctrl", "state">>
    /\ limited_roles["save"] = Some({"admin"})
    /\ "admin" \notin roles
    /\ Len(replies) = 1

(***************************************************************************)
(* Properties of help requests and of recoverable errors (checked under   *)
(* Spec)                                                                   *)
(***************************************************************************)
\* the first token left over by _parse_command is -h or --help
HelpRequested == raw_args # <<>> /\ raw_args[1] \in HelpFlags

\* C11: when _parse_command returns not denied and the first leftover token
\* is -h or --help, handle() sends exactly one reply, the help text of the
\* returned node; for a LeafCommand the function is not called and no
\* ReturnValue is interpreted (no result log, no report).
C11_HelpFlagFirst ==
    (Over /\ ~permission_denied /\ HelpRequested) =>
        /\ pc = "done"
        /\ replies = <<HelpInfo(command, roles, limited_roles,
                                full_name).text>>
        /\ invoked = <<>>
        /\ ret = NoReturn
        /\ reports = <<>>
        /\ logs = <<LogRecord("info", "Event handling", <<>>)>>

\* a LeafCommand's Function refused the raw arguments (their number or the
\* conversion of one of them) and returned without calling the handler
BindingRefused ==
    /\ pc \in {"returned", "done", "raised"}
    /\ ret.code = 1
    /\ ret.need_help
    /\ invoked = <<>>

\* _parse_command stopped at an InternalCommand on a token that names none
\* of its sub-commands and does not ask for help
UnknownSubcommand ==
    /\ Parsed
    /\ ~permission_denied
    /\ ~IsLeafCommand(command)
    /\ raw_args # <<>>
    /\ ~HelpRequested

\* C13: a wrong number of arguments, a failed conversion, an unknown
\* sub-command and a permission denial each end handle() by a return, never
\* by an exception, with at least one reply sent.
C13_RecoverableErrors ==
    (Over /\ (permission_denied \/ UnknownSubcommand \/ BindingRefused)) =>
        /\ pc = "done"
        /\ replies # <<>>

\* handle() has interpreted the ReturnValue of a LeafCommand's Function
ResultInterpreted ==
    /\ Over
    /\ ~permission_denied
    /\ IsLeafCommand(command)
    /\ ~HelpRequested

\* C16: after the Function of a LeafCommand returned r, handle() sends the
\* help text of that LeafCommand when r.need_help is true, as the last
\* reply and so after r.reply when r.reply is sent; when r.need_help is
\* false it sends no help text.
C16_HelpAfterReply ==
    ResultInterpreted =>
        LET help == HelpInfo(command, roles, limited_roles, full_name).text
            sent == IF TruthyStr(ret.reply) THEN <<ret.reply[1]>> ELSE <<>>
        IN  replies = IF ret.need_help THEN Append(sent, help) ELSE sent

\* -h or --help occurs somewhere among the leftover tokens
HelpFlagAnywhere ==
    \E i \in DOMAIN raw_args : raw_args[i] \in {"-h", "--help"}

\* C12 as stated: whenever -h or --help occurs at any position among the
\* tokens left over at a LeafCommand, handle() replies with the help text and
\* does not call the handler.
C12_Original ==
    (Over /\ ~permission_denied /\ IsLeafCommand(command)
        /\ HelpFlagAnywhere) =>
        /\ invoked = <<>>
        /\ pc = "done" =>
              replies = <<HelpInfo(command, roles, limited_roles,
                                   full_name).text>>

\* C12: -h and --help ask for help only as the first leftover token: handle()
\* then calls help_info of the LeafCommand and not its Function; at a later
\* position the flag is an ordinary raw argument, and the Function is called
\* on all the leftover tokens, the flag among them.
C12_HelpFlagFirstOnly ==
    (pc \in {"returned", "done", "raised"} /\ ~permission_denied
        /\ IsLeafCommand(command)) =>
        IF raw_args # <<>> /\ raw_args[1] \in {"-h", "--help"}
        THEN /\ pc # "returned"
             /\ invoked = <<>>
             /\ ret = NoReturn
             /\ pc = "done" =>
                   replies = <<HelpInfo(command, roles, limited_roles,
                                        full_name).text>>
        ELSE \E handler_ret \in HandlerReturns :
                LET r == Call(CommandTree[command].function[1], raw_args,
                              handler_ret)
                IN  /\ ret = r.ret
                    /\ invoked = IF r.invoked
                                 THEN <<[command |-> command,
                                         args |-> r.args]>>
                                 ELSE <<>>

\* "ctrl echo 7 -h": the handler of echo was called with the flag as its
\* second argument
C12_Witness ==
    /\ pc = "done"
    /\ command_part_list = <<"ctrl", "echo", "7", "-h">>
    /\ invoked = <<[command |-> "echo",
                    args |-> <<IntVal(7), StrVal("-h")>>]>>

(***************************************************************************)
(* Properties of help texts (checked under Spec)                           *)
(***************************************************************************)
\* handle() returned after replying with the help of an InternalCommand:
\* every branch for a node that is not a LeafCommand ends with that reply
InternalHelpReplied ==
    /\ pc = "done"
    /\ ~permission_denied
    /\ ~IsLeafCommand(command)

\* the names on the "* name: desc" lines of an InternalCommand's help text,
\* which follow the five fragments of its head, five fragments apart
ListedNames(text) ==
    [j \in 1..((Len(text) - 4) \div 5) |-> text[5 * j + 2]]

\* the position of a sub-command name in the declaration of node c
DeclaredAt(c, n) ==
    CHOOSE i \in DOMAIN CommandTree[c].subcommand_list :
        CommandTree[CommandTree[c].subcommand_list[i]].name = n

\* C20: the help text of an InternalCommand lists a sub-command only if its
\* limited_roles is None or holds one of the caller's roles; a sub-command
\* the dispatcher denies the caller is never listed; and the listed
\* sub-commands are in the order of their declaration.
C20_HelpFiltering ==
    InternalHelpReplied =>
        LET listed == ListedNames(replies[Len(replies)])
            subs == CommandTree[command].subcommand_list
        IN  /\ \A j \in DOMAIN listed :
                  \E i \in DOMAIN subs :
                      /\ CommandTree[subs[i]].name = listed[j]
                      /\ \/ IsNone(limited_roles[subs[i]])
                         \/ (limited_roles[subs[i]][1] \cap roles) # {}
            /\ \A i \in DOMAIN subs :
                  RoleDenied(limited_roles[subs[i]], roles) =>
                      CommandTree[subs[i]].name \notin Range(listed)
            /\ \A j, k \in DOMAIN listed :
                  j < k => DeclaredAt(command, listed[j])
                              < DeclaredAt(command, listed[k])

\* the help of ctrl listed echo and left out state, which the caller has no
\* role for
C20_Witness ==
    /\ InternalHelpReplied
    /\ command = "ctrl"
    /\ limited_roles["state"] = Some({"admin"})
    /\ "admin" \notin roles
    /\ ListedNames(replies[Len(replies)]) = <<"echo">>

(***************************************************************************)
(* SpecResult: handle() from the return of _parse_command at a            *)
(* LeafCommand, for a handler that may return any ReturnValue.            *)
(***************************************************************************)
\* the values of an Optional[str] field of a ReturnValue: None, the empty
\* string and a text
OptionalTexts(text) == {None, Some(<<>>), Some(<<text>>)}
ResultCodes == {0, 1, 2}

ReturnValues ==
    {ReturnValue(code, log, reply, report, need_help) :
        code \in ResultCodes,
        log \in OptionalTexts("a log"),
        reply \in OptionalTexts("a reply"),
        report \in OptionalTexts("a report"),
        need_help \in BOOLEAN}

\* the messages whose interpretation SpecResult follows
ResultLines ==
    {[command |-> "save", line |-> <<"ctrl", "state", "save">>],
     [command |-> "save", line |-> <<"ctrl", "state", "save", "7">>],
     [command |-> "echo", line |-> <<"ctrl", "echo", "7">>],
     [command |-> "echo", line |-> <<"ctrl", "echo">>]}

\* _parse_command has walked to a LeafCommand for a caller it denies none of
\* the nodes on the way
ResultInit ==
    /\ TreeInit
    /\ BindIdle
    /\ RestIdle
    /\ pc = "parsed"
    /\ user_id \in UserIds
    /\ roles = GetRoles(user_id)
    /\ \E l \in ResultLines :
          /\ command_part_list = l.line
          /\ command = l.command
    /\ \A a \in Range(PathTo(command)) : ~RoleDenied(limited_roles[a], roles)
    /\ current_command = command
    /\ visited = PathTo(command)
    /\ subcommand_idx = Len(visited)
    /\ raw_args = From(command_part_list, subcommand_idx)
    /\ permission_denied = FALSE
    /\ ret = NoReturn
    /\ replies = <<>>
    /\ logs = <<LogRecord("info", "Event handling", <<>>)>>
    /\ reports = <<>>
    /\ invoked = <<>>

HandleInvokeAny == HandleInvokeWith(ReturnValues)

NextResult == HandleInvokeAny \/ HandleResult

SpecResult == ResultInit /\ [][NextResult]_vars

(***************************************************************************)
(* Properties of the result protocol (checked under SpecResult)           *)
(***************************************************************************)
\* a channel of a ReturnValue is set when it holds a non-empty text; None
\* and the empty string both leave it empty
IsSet(o) == ~IsNone(o) /\ o[1] # <<>>

\* the log records handle() wrote for the ReturnValue: those after "Event
\* handling" and before "Event finished", which is missing after a raise
ResultLogs ==
    SubSeq(logs, 2, Len(logs) - (IF pc = "done" THEN 1 ELSE 0))

\* C15: for a ReturnValue r of a LeafCommand's Function, handle() logs r.log
\* at error level when r.code is not 0 and r.log is set, logs "Unknown error
\* occurred" at error level when r.code is not 0 and r.log is not set, logs
\* r.log at info level when r.code is 0 and r.log is set, and writes no
\* result log when r.code is 0 and r.log is not set.
C15_ResultLogging ==
    ResultInterpreted =>
        CASE ret.code # 0 /\ IsSet(ret.log) ->
                ResultLogs = <<[level |-> "error",
                                event |-> "Error occurred: ",
                                detail |-> ret.log[1]]>>
          [] ret.code # 0 /\ ~IsSet(ret.log) ->
                ResultLogs = <<[level |-> "error",
                                event |-> "Unknown error occurred",
                                detail |-> <<>>]>>
          [] ret.code = 0 /\ IsSet(ret.log) ->
                ResultLogs = <<[level |-> "info", event |-> "Message: ",
                                detail |-> ret.log[1]]>>
          [] ret.code = 0 /\ ~IsSet(ret.log) -> ResultLogs = <<>>

\* a handler failed without a log text and the generic error was logged
C15_Witness ==
    /\ pc = "done"
    /\ invoked # <<>>
    /\ ret.code = 2
    /\ IsNone(ret.log)
    /\ Len(logs) = 3
    /\ logs[2].event = "Unknown error occurred"

\* the replies handle() owes to r.reply and to r.need_help, in that order
ExpectedReplies ==
    LET help == HelpInfo(command, roles, limited_roles, full_name)
    IN  (IF IsSet(ret.reply) THEN <<ret.reply[1]>> ELSE <<>>)
        \o (IF ret.need_help /\ ~help.raised THEN <<help.text>> ELSE <<>>)

\* C17: handle() forwards r.report to the report group if and only if
\* r.report is set and report_gid is configured; without a report group the
\* report is dropped, dropping it raises nothing (handle() raises only when
\* help_info does), and the replies are those owed to r.reply and
\* r.need_help, as they are with a report group.
C17_ReportEscalation ==
    ResultInterpreted =>
        /\ reports = IF IsSet(ret.report) /\ ~IsNone(report_gid)
                     THEN <<[group_id |-> report_gid[1],
                             message |-> ret.report[1]]>>
                     ELSE <<>>
        /\ replies = ExpectedReplies
        /\ pc = "raised" =>
              /\ ret.need_help
              /\ HelpInfo(command, roles, limited_roles, full_name).raised

\* a report was dropped for want of a report group; the reply and the help
\* text were sent all the same
C17_Witness ==
    /\ pc = "done"
    /\ IsNone(report_gid)
    /\ ret.report = Some(<<"a report">>)
    /\ reports = <<>>
    /\ ret.need_help
    /\ Len(replies) = 2
    /\ replies[1] = <<"a reply">>

\* the replies of handle() that are, and that are not, the help text
HelpReplies ==
    SelectSeq(replies,
              LAMBDA m : m = HelpInfo(command, roles, limited_roles,
                                      full_name).text)
PlainReplies ==
    SelectSeq(replies,
              LAMBDA m : m # HelpInfo(command, roles, limited_roles,
                                      full_name).text)

\* C18: what handle() does on one channel of a ReturnValue is what it would
\* do for any other ReturnValue with the same inputs of that channel: the
\* result log depends on code and log only, the reply on reply only, the
\* report on report only and the help text on need_help only; and r.reply,
\* when set, is the first reply sent, verbatim, whatever the other fields.
C18_Independence ==
    ResultInterpreted =>
        LET help == HelpInfo(command, roles, limited_roles, full_name)
            result_logs == ResultLogs
            plain == PlainReplies
            helps == HelpReplies
        IN  /\ \A r \in ReturnValues :
                  /\ (r.code = ret.code /\ r.log = ret.log) =>
                        ResultLog(r) = result_logs
                  /\ r.reply = ret.reply => ResultReply(r) = plain
                  /\ r.report = ret.report =>
                        ResultReport(r, report_gid) = reports
                  /\ r.need_help = ret.need_help =>
                        /\ ResultHelp(r, help) = helps
                        /\ (r.need_help /\ help.raised) <=> pc = "raised"
            /\ IsSet(ret.reply) =>
                  (replies # <<>> /\ replies[1] = ret.reply[1])

\* a failed call with a log, a report and a help request still sent its
\* reply first
C18_Witness ==
    /\ pc = "done"
    /\ ret = ReturnValue(2, Some(<<"a log">>), Some(<<"a reply">>),
                         Some(<<"a report">>), TRUE)
    /\ Len(replies) = 2
    /\ replies[1] = <<"a reply">>

(***************************************************************************)
(* SpecLine: rule() and the first statements of handle() on the text of   *)
(* one message.  A text is a sequence of pieces: a run of ordinary        *)
(* characters, one blank, or one double quote.                            *)
(***************************************************************************)
\* longest text, in pieces
MaxLine == 4

Blank == " "
Quote == "\""
LinePieces == {"ctrl", "x", Blank, Quote}

\* str.strip()
RECURSIVE LStrip(_)
LStrip(s) == IF s # <<>> /\ s[1] = Blank THEN LStrip(Tail(s)) ELSE s
RECURSIVE RStrip(_)
RStrip(s) ==
    IF s # <<>> /\ s[Len(s)] = Blank
    THEN RStrip(SubSeq(s, 1, Len(s) - 1)) ELSE s
Strip(s) == RStrip(LStrip(s))

\* str.split() from piece i on: the words between runs of blanks; word is
\* the word being read, None between words; a quote is an ordinary character
RECURSIVE StrSplitFrom(_, _, _, _)
StrSplitFrom(s, i, word, words) ==
    LET closed == IF IsNone(word) THEN words ELSE Append(words, word[1])
    IN  IF i > Len(s) THEN closed
        ELSE IF s[i] = Blank THEN StrSplitFrom(s, i + 1, None, closed)
        ELSE StrSplitFrom(s, i + 1,
                          Some((IF IsNone(word) THEN "" ELSE word[1])
                               \o s[i]),
                          words)
StrSplit(s) == StrSplitFrom(s, 1, None, <<>>)

\* shlex.split() from piece i on: blanks separate words outside quotes, a
\* quote opens or closes a quoted part of the word being read and is not
\* kept, and the end of the text inside quotes raises ValueError
RECURSIVE ShlexSplitFrom(_, _, _, _, _)
ShlexSplitFrom(s, i, quoted, word, words) ==
    LET closed == IF IsNone(word) THEN words ELSE Append(words, word[1])
        read == IF IsNone(word) THEN "" ELSE word[1]
    IN  IF i > Len(s)
        THEN IF quoted THEN [raised |-> TRUE, words |-> <<>>]
             ELSE [raised |-> FALSE, words |-> closed]
        ELSE IF s[i] = Quote
        THEN ShlexSplitFrom(s, i + 1, ~quoted, Some(read), words)
        ELSE IF s[i] = Blank /\ ~quoted
        THEN ShlexSplitFrom(s, i + 1, FALSE, None, closed)
        ELSE ShlexSplitFrom(s, i + 1, quoted, Some(read \o s[i]), words)
ShlexSplit(s) == ShlexSplitFrom(s, 1, FALSE, None, <<>>)

\* an event has arrived and rule() has not run yet
LineInit ==
    /\ limited_roles = [c \in Nodes |-> None]
    /\ full_name = RootCommandInit
    /\ report_gid = None
    /\ BindIdle
    /\ BuildIdle
    /\ LaterIdle
    /\ message \in SeqUpTo(LinePieces, MaxLine)
    /\ group_id \in {100, 200}
    /\ limited_group_id_set \in {None, Some({100})}
    /\ pc = "received"
    /\ user_id \in UserIds
    /\ roles = {}
    /\ command_part_list = <<>>
    /\ current_command = RootNode
    /\ subcommand_idx = 0
    /\ command = RootNode
    /\ raw_args = <<>>
    /\ permission_denied = FALSE
    /\ ret = NoReturn
    /\ replies = <<>>
    /\ logs = <<>>
    /\ reports = <<>>
    /\ invoked = <<>>
    /\ visited = <<>>

\* what rule() and the first statements of handle() leave alone
LineFrame ==
    UNCHANGED <<user_id, current_command, subcommand_idx, command, raw_args,
                permission_denied, ret, replies, reports, invoked, visited,
                treeVars, bindVars, restVars>>

\* the test of limited_group_id_set in rule()
GroupFiltered ==
    ~IsNone(limited_group_id_set) /\ group_id \notin limited_group_id_set[1]

\* rule(): the group of the event is not one of the limited groups
RuleGroupRejected ==
    /\ pc = "received"
    /\ GroupFiltered
    /\ logs' = <<LogRecord("info", "Received Event: ", <<>>),
                 LogRecord("info",
                           "Event rejected: Filtered by limited_group_ids: ",
                           <<>>)>>
    /\ pc' = "rejected"
    /\ UNCHANGED <<roles, command_part_list>>
    /\ LineFrame

\* rule(): str(message).strip().split()[0] on a text without a word raises
\* IndexError
RuleRaises ==
    /\ pc = "received"
    /\ ~GroupFiltered
    /\ StrSplit(Strip(message)) = <<>>
    /\ logs' = <<LogRecord("info", "Received Event: ", <<>>)>>
    /\ pc' = "raised"
    /\ UNCHANGED <<roles, command_part_list>>
    /\ LineFrame

\* rule(): the first word is not the name of the plugin's command
RuleNameRejected ==
    /\ pc = "received"
    /\ ~GroupFiltered
    /\ StrSplit(Strip(message)) # <<>>
    /\ StrSplit(Strip(message))[1] # CommandTree[RootNode].name
    /\ logs' = <<LogRecord("info", "Received Event: ", <<>>),
                 LogRecord("info",
                           "Event rejected: Filtered by command name: ",
                           <<StrSplit(Strip(message))[1]>>)>>
    /\ pc' = "rejected"
    /\ UNCHANGED <<roles, command_part_list>>
    /\ LineFrame

RuleAccepted ==
    /\ pc = "received"
    /\ ~GroupFiltered
    /\ StrSplit(Strip(message)) # <<>>
    /\ StrSplit(Strip(message))[1] = CommandTree[RootNode].name
    /\ logs' = <<LogRecord("info", "Received Event: ", <<>>),
                 LogRecord("info", "Event accepted", <<>>)>>
    /\ pc' = "accepted"
    /\ UNCHANGED <<roles, command_part_list>>
    /\ LineFrame

\* handle(): shlex.split(str(message)) raises ValueError
TokenizeRaises ==
    /\ pc = "accepted"
    /\ ShlexSplit(message).raised
    /\ roles' = GetRoles(user_id)
    /\ logs' = Append(logs, LogRecord("info", "Event handling", <<>>))
    /\ pc' = "raised"
    /\ UNCHANGED command_part_list
    /\ LineFrame

\* handle(), up to the call of _parse_command
Tokenize ==
    /\ pc = "accepted"
    /\ ~ShlexSplit(message).raised
    /\ roles' = GetRoles(user_id)
    /\ logs' = Append(logs, LogRecord("info", "Event handling", <<>>))
    /\ command_part_list' = ShlexSplit(message).words
    /\ pc' = "parse"
    /\ LineFrame

NextLine ==
    \/ RuleGroupRejected
    \/ RuleRaises
    \/ RuleNameRejected
    \/ RuleAccepted
    \/ TokenizeRaises
    \/ Tokenize

SpecLine == LineInit /\ [][NextLine]_vars

(***************************************************************************)
(* Properties of rule() and of the tokenizer (checked under SpecLine)     *)
(***************************************************************************)
\* C14: for every text of a message, the empty text, a text of blanks and a
\* text with an unterminated quote included, rule() and handle() end without
\* an exception: a failure becomes a ReturnValue or a denial and a reply.
C14_NoCrash == pc # "raised"

(***************************************************************************)
(* SpecBuild: RootCommand.__init__ on a tree of InternalCommand and        *)
(* LeafCommand objects, one call of _update_full_name at a time.  Node 1   *)
(* is the RootCommand; the constructors of the other nodes have run.       *)
(***************************************************************************)
\* most nodes of a tree, the RootCommand included
MaxNodes == 4

BuildNames == {"a", "b"}

\* the elements of a set of numbers in increasing order
RECURSIVE Ascending(_)
Ascending(S) ==
    IF S = {} THEN <<>>
    ELSE LET m == CHOOSE x \in S : \A y \in S : x <= y
         IN  <<m>> \o Ascending(S \ {m})

\* the trees of n nodes in which node i is a sub-command of parent[i]: a
\* node without sub-commands is a LeafCommand or an InternalCommand with an
\* empty subcommand_list
TreesOf(n, parent) ==
    {[c \in 1..n |->
        [class |-> IF c = 1 THEN "RootCommand"
                   ELSE IF leaf[c] THEN "LeafCommand"
                   ELSE "InternalCommand",
         name |-> names[c],
         subcommand_list |-> Ascending({i \in 2..n : parent[i] = c})]] :
        names \in [1..n -> BuildNames],
        leaf \in {l \in [1..n -> BOOLEAN] :
                    \A c \in 1..n :
                        l[c] => (c # 1 /\ \A i \in 2..n : parent[i] # c)}}

\* every node but the first is a sub-command of an earlier one
BuildTrees(n) ==
    UNION {TreesOf(n, parent) :
              parent \in {p \in [2..n -> 1..n] : \A i \in 2..n : p[i] < i}}

\* Command.__init__ has run for every node and InternalCommand.__init__ for
\* the RootCommand; the loop of RootCommand.__init__ is next
BuildInit ==
    /\ \E n \in 1..MaxNodes : tree \in BuildTrees(n)
    /\ full_name = [c \in DOMAIN tree |-> tree[c].name]
    /\ stamps = [c \in DOMAIN tree |-> 0]
    /\ calls = <<>>
    /\ pc = "construct"
    /\ limited_roles = [c \in DOMAIN tree |-> None]
    /\ report_gid = None
    /\ BindIdle
    /\ LineIdle
    /\ LaterIdle
    /\ user_id = 0
    /\ roles = {}
    /\ command_part_list = <<>>
    /\ current_command = RootNode
    /\ subcommand_idx = 0
    /\ command = RootNode
    /\ raw_args = <<>>
    /\ permission_denied = FALSE
    /\ ret = NoReturn
    /\ replies = <<>>
    /\ logs = <<>>
    /\ reports = <<>>
    /\ invoked = <<>>
    /\ visited = <<>>

\* what the constructors leave alone
BuildFrame ==
    UNCHANGED <<tree, limited_roles, report_gid, user_id, roles,
                command_part_list, current_command, subcommand_idx, command,
                raw_args, permission_denied, ret, replies, logs, reports,
                invoked, visited, bindVars, lineVars, laterVars>>

\* f"{parent_full_name} {self.name}"
StampedName(parent_full_name, name) == parent_full_name \o " " \o name

\* ChildCalls handing down the node's own name
ChildCalls_OwnName(c, parent_full_name) ==
    [i \in DOMAIN tree[c].subcommand_list |->
        [node |-> tree[c].subcommand_list[i],
         parent_full_name |-> tree[c].name]]
\* "for subcommand in self.subcommand_list:
\*      subcommand._update_full_name(parent_full_name)"
ChildCalls(c, parent_full_name) ==
    [i \in DOMAIN tree[c].subcommand_list |->
        [node |-> tree[c].subcommand_list[i],
         parent_full_name |-> parent_full_name]]

\* RootCommand.__init__: the loop over its sub-commands
RootCommandStamp ==
    /\ pc = "construct"
    /\ calls' = ChildCalls(1, tree[1].name)
    /\ pc' = "stamping"
    /\ UNCHANGED <<full_name, stamps>>
    /\ BuildFrame

\* InternalCommand._update_full_name, the innermost pending call
InternalUpdateFullName ==
    /\ pc = "stamping"
    /\ calls # <<>>
    /\ tree[calls[1].node].class # "LeafCommand"
    /\ LET c == calls[1].node
           mine == StampedName(calls[1].parent_full_name, tree[c].name)
       IN  /\ full_name' = [full_name EXCEPT ![c] = mine]
           /\ stamps' = [stamps EXCEPT ![c] = @ + 1]
           /\ calls' = ChildCalls(c, mine) \o Tail(calls)
    /\ UNCHANGED pc
    /\ BuildFrame

\* LeafCommand._update_full_name, the innermost pending call
LeafUpdateFullName ==
    /\ pc = "stamping"
    /\ calls # <<>>
    /\ tree[calls[1].node].class = "LeafCommand"
    /\ LET c == calls[1].node
       IN  /\ full_name' =
                 [full_name EXCEPT
                    ![c] = StampedName(calls[1].parent_full_name,
                                       tree[c].name)]
           /\ stamps' = [stamps EXCEPT ![c] = @ + 1]
    /\ calls' = Tail(calls)
    /\ UNCHANGED pc
    /\ BuildFrame

\* RootCommand.__init__ returns
RootCommandReturn ==
    /\ pc = "stamping"
    /\ calls = <<>>
    /\ pc' = "constructed"
    /\ UNCHANGED <<full_name, stamps, calls>>
    /\ BuildFrame

NextBuild ==
    \/ RootCommandStamp
    \/ InternalUpdateFullName
    \/ LeafUpdateFullName
    \/ RootCommandReturn

SpecBuild == BuildInit /\ [][NextBuild]_vars

(***************************************************************************)
(* Properties of the construction (checked under SpecBuild)               *)
(***************************************************************************)
\* the node that has c among its sub-commands
BuildParent(c) ==
    CHOOSE p \in DOMAIN tree : c \in Range(tree[p].subcommand_list)

\* the names of the nodes from the RootCommand down to c, in that order
RECURSIVE PathNames(_)
PathNames(c) ==
    IF c = 1 THEN <<tree[1].name>>
    ELSE Append(PathNames(BuildParent(c)), tree[c].name)

\* the words of a sequence with one space between neighbours
RECURSIVE JoinWords(_)
JoinWords(words) ==
    IF Len(words) = 1 THEN words[1]
    ELSE words[1] \o " " \o JoinWords(Tail(words))

\* C19: when RootCommand.__init__ has returned, the full_name of every node
\* of the tree is the names on the path from the RootCommand to it joined by
\* single spaces, the RootCommand's being its name; every other node was
\* stamped by _update_full_name exactly once, and never more than once on
\* the way.
C19_FullNameStamping ==
    /\ pc \in {"stamping", "constructed"} =>
          \A c \in DOMAIN tree : stamps[c] <= 1
    /\ pc = "constructed" =>
          \A c \in DOMAIN tree :
              /\ full_name[c] = JoinWords(PathNames(c))
              /\ stamps[c] = IF c = 1 THEN 0 ELSE 1

\* a chain of three nodes was built and the lowest one, a LeafCommand, got
\* the three names
C19_Witness ==
    /\ pc = "constructed"
    /\ \E c \in DOMAIN tree :
          /\ tree[c].class = "LeafCommand"
          /\ Len(PathNames(c)) = 3
          /\ full_name[c] = "a b a"
          /\ stamps[c] = 1

(***************************************************************************)
(* Properties of the dispatcher as a whole (checked under Spec)            *)
(***************************************************************************)
\* C21: no step of a dispatch changes the tree: limited_roles and full_name
\* of every node stay as constructed (names, descriptions, sub-command lists
\* and Functions are fixed with the tree), so help_info of the node being
\* dispatched, for the caller's roles, gives the same result before and after
\* the step, a raised assertion included.
C21_TreeReadOnly ==
    [][/\ limited_roles' = limited_roles
       /\ full_name' = full_name
       /\ HelpInfo(command', roles', limited_roles', full_name')
             = HelpInfo(command', roles', limited_roles, full_name)]_vars

\* a dispatch replied with the help of state, rendered from the tree as the
\* constructors left it
C21_Witness ==
    /\ pc = "done"
    /\ command = "state"
    /\ Len(replies) = 1
    /\ full_name = RootCommandInit
    /\ replies[1] = HelpInfo("state", roles, limited_roles,
                             RootCommandInit).text

(* Loading plugin classes (SpecLoad) *)

MaxPlugins == 3

\* what the body of a plugin class binds to `command`: nothing, a
\* RootCommand, a LeafCommand, a bare InternalCommand, or a value that is
\* no Command at all
CommandKinds == {"missing", "RootCommand", "LeafCommand", "InternalCommand", "str"}

\* the class object of CQHTTPGroupMessageCommandHandlerPlugin, which
\* annotates `command` and binds nothing to it
HandlerBase == 0

\* getattr(cls, "command") for the class with these bases: the binding of the
\* class body, else the one inherited from its base; "missing" when hasattr
\* is false
RECURSIVE GetCommand(_, _, _)
GetCommand(defs, base, own) ==
    IF own # "missing" THEN own
    ELSE IF base = HandlerBase THEN "missing"
    ELSE GetCommand(defs, defs[base].base, defs[base].own)

\* isinstance(value, RootCommand | LeafCommand) with every Command class
\* accepted
IsRootOrLeaf_AnyCommand(kind) == kind \in {"RootCommand", "LeafCommand", "InternalCommand"}

\* isinstance(value, RootCommand | LeafCommand)
IsRootOrLeaf(kind) == kind \in {"RootCommand", "LeafCommand"}

LoadInit ==
    /\ TreeInit
    /\ DispatchIdle
    /\ BindIdle
    /\ LineIdle
    /\ BuildIdle
    /\ LoadIdle
    /\ CheckIdle
    /\ PairIdle
    /\ ScheduleIdle
    /\ LastIdle

\* a class statement deriving from the handler base or from a plugin class
\* that exists; a class whose definition raised was never bound to a name
Bases == {HandlerBase} \cup {i \in 1..Len(classes) : ~classes[i].raised}

\* __init_subclass__ reaching its last line
InitSubclassRegisters ==
    /\ Len(classes) < MaxPlugins
    /\ \E base \in Bases, own \in CommandKinds :
          /\ GetCommand(classes, base, own) # "missing"
          /\ IsRootOrLeaf(GetCommand(classes, base, own))
          /\ classes' = Append(classes, [base |-> base, own |-> own, raised |-> FALSE])
          /\ registered_nyaplugin_list' = Append(registered_nyaplugin_list, Len(classes) + 1)
    /\ UNCHANGED <<treeVars, dispatchVars, bindVars, lineVars, buildVars, checkVars,
                   pairVars, scheduleVars,
                   lastVars>>

\* __init_subclass__ raising ValueError
InitSubclassRaises ==
    /\ Len(classes) < MaxPlugins
    /\ \E base \in Bases, own \in CommandKinds :
          /\ \/ GetCommand(classes, base, own) = "missing"
             \/ ~IsRootOrLeaf(GetCommand(classes, base, own))
          /\ classes' = Append(classes, [base |-> base, own |-> own, raised |-> TRUE])
    /\ UNCHANGED <<registered_nyaplugin_list, treeVars, dispatchVars, bindVars,
                   lineVars, buildVars, checkVars, pairVars, scheduleVars,
                   lastVars>>

NextLoad == InitSubclassRegisters \/ InitSubclassRaises

SpecLoad == LoadInit /\ [][NextLoad]_vars

\* the class definitions whose `command`, own or inherited, is a RootCommand
\* or a LeafCommand
RECURSIVE EntryPoints(_, _)
EntryPoints(defs, i) ==
    IF i > Len(defs) THEN <<>>
    ELSE (IF GetCommand(defs, defs[i].base, defs[i].own) \in {"RootCommand", "LeafCommand"}
          THEN <<i>> ELSE <<>>) \o EntryPoints(defs, i + 1)

\* C22: the registry holds, in definition order, exactly the plugin classes
\* whose `command` is a RootCommand or a LeafCommand, and the definition of
\* every other class (no `command`, a bare InternalCommand, a value that is
\* no Command) raised and added nothing to the registry.
C22_RegistrationGate ==
    /\ registered_nyaplugin_list = EntryPoints(classes, 1)
    /\ \A i \in 1..Len(classes) :
          classes[i].raised
             <=> GetCommand(classes, classes[i].base, classes[i].own)
                    \notin {"RootCommand", "LeafCommand"}

\* a LeafCommand plugin was registered, then a class without `command` and
\* one with a bare InternalCommand were rejected
C22_Witness ==
    /\ Len(classes) = 3
    /\ classes[1].own = "LeafCommand"
    /\ classes[2] = [base |-> HandlerBase, own |-> "missing", raised |-> TRUE]
    /\ classes[3] = [base |-> HandlerBase, own |-> "InternalCommand", raised |-> TRUE]
    /\ registered_nyaplugin_list = <<1>>

(* Constructing a Function object (SpecConstruct) *)

\* inspect.Parameter kinds a handler's parameters have
ParamKinds == {"POSITIONAL_OR_KEYWORD", "VAR_POSITIONAL", "KEYWORD_ONLY"}

\* typing.Optional[t] as an annotation
OptionalOf(t) == "Optional[" \o t \o "]"

\* the annotations of a handler's parameters
Annotations == TypeNames \cup {OptionalOf(t) : t \in TypeNames}

\* the receiver of a handler method
SelfParam == [kind |-> "POSITIONAL_OR_KEYWORD", annotation |-> "empty"]

\* the parameter lists Python accepts: positional parameters, then at most
\* one *args, then keyword-only parameters
ValidOrder(params) ==
    /\ \A i, j \in DOMAIN params :
          i < j => ~(/\ params[i].kind \in {"VAR_POSITIONAL", "KEYWORD_ONLY"}
                     /\ params[j].kind = "POSITIONAL_OR_KEYWORD")
    /\ \A i, j \in DOMAIN params :
          i < j => params[j].kind # "VAR_POSITIONAL" \/ params[i].kind = "POSITIONAL_OR_KEYWORD"

\* inspect.signature(func).parameters of the handlers tried: no parameter at
\* all, or the receiver and up to MaxFixed + 1 parameters
Signatures ==
    {<<>>} \cup
    {<<SelfParam>> \o params :
        params \in {ps \in SeqUpTo([kind : ParamKinds, annotation : Annotations],
                                   MaxFixed + 1) : ValidOrder(ps)}}

\* list(func_signature.parameters.values())[1:]
FuncParamDescList(f) == SubSeq(f, 2, Len(f))

\* the first loop of _check: a parameter of a kind the variant does not accept
InvalidParameter(variant, params) ==
    \E i \in DOMAIN params :
        params[i].kind \notin
            (IF variant = "Variable"
             THEN {"POSITIONAL_OR_KEYWORD", "VAR_POSITIONAL"}
             ELSE {"POSITIONAL_OR_KEYWORD"})

\* any(annotation != desc[1] for ... in zip(params, fixed))
AnnotationMismatch(params, fixed) ==
    \E i \in 1..Min(Len(params), Len(fixed)) : params[i].annotation # fixed[i][2]

\* _check with the annotations never compared
Check_CountOnly(f, sig) ==
    LET params == FuncParamDescList(sig)
        n == Len(f.fixed_param_desc_list)
    IN  IF InvalidParameter(f.variant, params) THEN Some("ValueError")
        ELSE IF f.variant = "Fixed"
        THEN IF Len(params) # n THEN Some("ValueError") ELSE None
        ELSE IF Len(params) # n + 1
        THEN (IF params = <<>> THEN Some("IndexError") ELSE Some("ValueError"))
        ELSE IF f.variant = "Variable" /\ params[Len(params)].kind # "VAR_POSITIONAL"
        THEN Some("ValueError")
        ELSE None

\* _check of the three variants: None when it returns, else the exception it
\* raises; the message of the ValueError of the optional and the variadic
\* variant reads func_param_desc_list[-1], an IndexError on an empty list
Check(f, sig) ==
    LET params == FuncParamDescList(sig)
        fixed == f.fixed_param_desc_list
        n == Len(fixed)
        last == params[Len(params)]
    IN  IF InvalidParameter(f.variant, params) THEN Some("ValueError")
        ELSE IF f.variant = "Fixed"
        THEN IF Len(params) # n \/ AnnotationMismatch(params, fixed)
             THEN Some("ValueError") ELSE None
        ELSE IF f.variant = "Optional"
        THEN IF Len(params) # n + 1
             THEN (IF params = <<>> THEN Some("IndexError") ELSE Some("ValueError"))
             ELSE IF \/ AnnotationMismatch(SubSeq(params, 1, Len(params) - 1), fixed)
                     \/ last.annotation # OptionalOf(f.optional_param_desc[2])
             THEN Some("ValueError") ELSE None
        ELSE IF Len(params) # n + 1
             THEN (IF params = <<>> THEN Some("IndexError") ELSE Some("ValueError"))
             ELSE IF \/ last.kind # "VAR_POSITIONAL"
                     \/ AnnotationMismatch(SubSeq(params, 1, Len(params) - 1), fixed)
                     \/ last.annotation # f.variable_param_desc[2]
             THEN Some("ValueError") ELSE None

\* the arguments later passed to a Function that was constructed
ConstructArgs == SeqUpTo({"7", "x"}, 1)

ConstructInit ==
    /\ limited_roles = [c \in Nodes |-> None]
    /\ full_name = RootCommandInit
    /\ report_gid = None
    /\ DispatchIdle
    /\ LineIdle
    /\ BuildIdle
    /\ LoadIdle
    /\ PairIdle
    /\ ScheduleIdle
    /\ LastIdle
    /\ bpc = "construct"
    /\ function \in Functions
    /\ raw_arg_list \in ConstructArgs
    /\ call = NoCall
    /\ func \in Signatures
    /\ checks = <<>>

\* __init__ stores its arguments, runs _check, and the check raises: the
\* constructor call has no value, no name is bound to the object
ConstructRaises_Usable ==
    /\ bpc = "construct"
    /\ ~IsNone(Check(function, func))
    /\ checks' = Append(checks, Check(function, func))
    /\ bpc' = "ready"
    /\ UNCHANGED <<func, function, raw_arg_list, call, treeVars, dispatchVars,
                   lineVars, buildVars, loadVars, pairVars, scheduleVars,
                   lastVars>>

\* __init__ stores its arguments, runs _check, and the check raises
ConstructRaises ==
    /\ bpc = "construct"
    /\ ~IsNone(Check(function, func))
    /\ checks' = Append(checks, Check(function, func))
    /\ bpc' = "failed"
    /\ UNCHANGED <<func, function, raw_arg_list, call, treeVars, dispatchVars,
                   lineVars, buildVars, loadVars, pairVars, scheduleVars,
                   lastVars>>

\* __init__ stores its arguments, runs _check, and returns the object
ConstructReturns ==
    /\ bpc = "construct"
    /\ IsNone(Check(function, func))
    /\ checks' = Append(checks, None)
    /\ bpc' = "ready"
    /\ UNCHANGED <<func, function, raw_arg_list, call, treeVars, dispatchVars,
                   lineVars, buildVars, loadVars, pairVars, scheduleVars,
                   lastVars>>

NextConstruct ==
    \/ ConstructRaises
    \/ ConstructReturns
    \/ CallFixedParams
    \/ CallOptionalParam
    \/ CallVariableParams

SpecConstruct == ConstructInit /\ [][NextConstruct]_vars

\* the handler's parameters after the receiver have exactly the shape the
\* descriptors of the Function give
ShapesMatch ==
    LET params == SubSeq(func, 2, Len(func))
        fixed == function.fixed_param_desc_list
        n == Len(fixed)
        FixedMatch ==
            \A i \in 1..n : /\ params[i].kind = "POSITIONAL_OR_KEYWORD"
                            /\ params[i].annotation = fixed[i][2]
    IN  CASE function.variant = "Fixed" -> Len(params) = n /\ FixedMatch
          [] function.variant = "Optional" ->
                /\ Len(params) = n + 1
                /\ FixedMatch
                /\ params[n + 1].kind = "POSITIONAL_OR_KEYWORD"
                /\ params[n + 1].annotation
                      = "Optional[" \o function.optional_param_desc[2] \o "]"
          [] function.variant = "Variable" ->
                /\ Len(params) = n + 1
                /\ FixedMatch
                /\ params[n + 1].kind = "VAR_POSITIONAL"
                /\ params[n + 1].annotation = function.variable_param_desc[2]

\* C23: constructing a Function of any of the three variants succeeds exactly
\* when the handler's parameters after the receiver match the descriptors in
\* count, kind and declared type (Optional of the descriptor's type for the
\* optional tail, a variadic positional of the descriptor's type for the
\* variadic tail); in every other case the constructor raises.
C23_SignatureCheck ==
    bpc # "construct" =>
        /\ ShapesMatch <=> bpc \in {"ready", "returned"}
        /\ ShapesMatch <=> checks = <<None>>
        /\ ~ShapesMatch <=> (bpc = "failed" /\ Len(checks) = 1 /\ ~IsNone(checks[1]))

\* an optional-tail Function whose handler declares the tail with the bare
\* type of the descriptor, everything else matching, was refused
C23_Witness ==
    /\ bpc = "failed"
    /\ function.variant = "Optional"
    /\ Len(function.fixed_param_desc_list) = 1
    /\ Len(func) = 3
    /\ func[2].annotation = function.fixed_param_desc_list[1][2]
    /\ func[3] = [kind |-> "POSITIONAL_OR_KEYWORD",
                  annotation |-> function.optional_param_desc[2]]
    /\ checks = <<Some("ValueError")>>

\* C24: _check of a Function runs exactly once, in the constructor: it has
\* run once and returned before any call of the object, a call does not run
\* it again, and an object whose check raised is never called.
C24_CheckBeforeTraffic ==
    /\ Len(checks) <= 1
    /\ bpc = "construct" <=> checks = <<>>
    /\ call # NoCall => checks = <<None>>
    /\ bpc = "returned" => checks = <<None>>
    /\ (checks # <<>> /\ ~IsNone(checks[1])) => (call = NoCall /\ bpc = "failed")

\* a Function that passed its check was called and invoked its handler
C24_Witness ==
    /\ bpc = "returned"
    /\ call.invoked
    /\ checks = <<None>>

(* One invocation per dispatch (checked under SpecResult) *)

\* how often x occurs in the sequence s
Occurrences(s, x) == Cardinality({i \in DOMAIN s : s[i] = x})

\* C25: in a dispatch the handler of the LeafCommand is invoked at most once
\* whatever ReturnValue it produces; a ReturnValue of code other than 0 is
\* logged as one error and its reply, if set, is sent once; and once the
\* handler has returned the only step left is the interpretation of the
\* ReturnValue, which ends the dispatch without another invocation.
C25_NoRetries ==
    /\ [](Len(invoked) <= 1)
    /\ []((ResultInterpreted /\ ret.code # 0) =>
            /\ Cardinality({i \in DOMAIN logs : logs[i].level = "error"}) = 1
            /\ IsSet(ret.reply) => Occurrences(replies, ret.reply[1]) = 1
            /\ Len(reports) <= 1)
    /\ [][/\ pc = "returned" => (pc' \in {"done", "raised"} /\ invoked' = invoked)
          /\ pc \notin {"done", "raised"}]_vars

\* a handler was invoked once, failed with a reply, and the dispatch ended
C25_Witness ==
    /\ pc = "done"
    /\ Len(invoked) = 1
    /\ ret.code = 2
    /\ IsSet(ret.reply)
    /\ replies = <<ret.reply[1]>>

(* The precondition of help_info (checked under Spec) *)

\* handle() called help_info on the node _parse_command returned: the node is
\* no LeafCommand, or help was requested, or the ReturnValue asked for help
HelpInfoCalled ==
    /\ Over
    /\ ~permission_denied
    /\ \/ ~IsLeafCommand(command)
       \/ HelpRequested
       \/ ret.need_help

\* C26: whenever a dispatch calls help_info(roles) on a node, the node's
\* limited_roles is None or has a role in common with roles, for every tree,
\* nodes whose limited_roles is the empty set included; the assertion at the
\* top of help_info never fails.
C26_HelpPrecondition ==
    HelpInfoCalled =>
        /\ IsNone(limited_roles[command])
              \/ (limited_roles[command][1] \cap roles) # {}
        /\ pc = "done"

(* Dispatches in flight together (SpecPair) *)

\* the handle() calls of a run: one that runs with no other in flight, then
\* two that the event loop interleaves
Dispatches == {"alone", "first", "second"}

\* the messages of the events
PairLines ==
    {<<"ctrl", "echo", "7">>, <<"ctrl", "state", "save">>, <<"ctrl", "del">>}

\* the plugin instance and the locals of one handle() call, with what the
\* call has done so far
Frame ==
    [pc |-> pc, user_id |-> user_id, roles |-> roles,
     command_part_list |-> command_part_list,
     current_command |-> current_command, subcommand_idx |-> subcommand_idx,
     command |-> command, raw_args |-> raw_args,
     permission_denied |-> permission_denied, ret |-> ret,
     replies |-> replies, logs |-> logs, reports |-> reports,
     invoked |-> invoked, visited |-> visited]

\* the frame of a handle() call that has not started
IdleFrame ==
    [pc |-> "idle", user_id |-> 0, roles |-> {}, command_part_list |-> <<>>,
     current_command |-> RootNode, subcommand_idx |-> 0, command |-> RootNode,
     raw_args |-> <<>>, permission_denied |-> FALSE, ret |-> NoReturn,
     replies |-> <<>>, logs |-> <<>>, reports |-> <<>>, invoked |-> <<>>,
     visited |-> <<>>]

PairInit ==
    /\ TreeInit
    /\ DispatchIdle
    /\ BindIdle
    /\ LineIdle
    /\ BuildIdle
    /\ LoadIdle
    /\ CheckIdle
    /\ ScheduleIdle
    /\ LastIdle
    /\ frames = [d \in Dispatches |-> IdleFrame]
    /\ schedule = <<"alone">>

\* the handle() call the event loop is running
Running == schedule[Len(schedule)]

\* handle() starts on an event; the first of the interleaved calls gets the
\* event that the call running alone got
ReceiveInterleaved ==
    /\ pc = "idle"
    /\ \E uid \in UserIds, line \in PairLines :
          /\ Running = "first" =>
                /\ uid = frames["alone"].user_id
                /\ line = frames["alone"].command_part_list
          /\ user_id' = uid
          /\ roles' = GetRoles(uid)
          /\ command_part_list' = line
    /\ pc' = "parse"
    /\ logs' = <<LogRecord("info", "Event handling", <<>>)>>
    /\ UNCHANGED <<current_command, subcommand_idx, command, raw_args,
                   permission_denied, ret, replies, reports, invoked, visited,
                   treeVars, bindVars, restVars>>

\* the event loop may leave the running call while it awaits its handler
\* (pc = "returned": the handler's ReturnValue is not yet interpreted) or
\* when it is over, for a call that has work left; a call resumed in its
\* handler runs on to its end; the call running alone is never left before
\* it is over and never resumed
CanSwitch(to) ==
    /\ to \in {"first", "second"}
    /\ to # Running
    /\ frames[to].pc \in {"idle", "returned"}
    /\ IF Running = "alone" THEN pc \in {"done", "raised"}
       ELSE \/ pc \in {"done", "raised"}
            \/ pc = "returned" /\ frames[Running].pc = "idle"

\* Switch with one reply buffer for all calls
Switch_SharedReplies(to) ==
    /\ CanSwitch(to)
    /\ frames' = [frames EXCEPT ![Running] = Frame]
    /\ schedule' = Append(schedule, to)
    /\ LET f == frames[to]
       IN  /\ pc' = f.pc
           /\ user_id' = f.user_id
           /\ roles' = f.roles
           /\ command_part_list' = f.command_part_list
           /\ current_command' = f.current_command
           /\ subcommand_idx' = f.subcommand_idx
           /\ command' = f.command
           /\ raw_args' = f.raw_args
           /\ permission_denied' = f.permission_denied
           /\ ret' = f.ret
           /\ replies' = replies
           /\ logs' = f.logs
           /\ reports' = f.reports
           /\ invoked' = f.invoked
           /\ visited' = f.visited
    /\ UNCHANGED <<treeVars, bindVars, lineVars, buildVars, loadVars, checkVars,
                   scheduleVars, lastVars>>

\* the event loop suspends the running call and runs or resumes another:
\* each call keeps its own plugin instance and locals
Switch(to) ==
    /\ CanSwitch(to)
    /\ frames' = [frames EXCEPT ![Running] = Frame]
    /\ schedule' = Append(schedule, to)
    /\ LET f == frames[to]
       IN  /\ pc' = f.pc
           /\ user_id' = f.user_id
           /\ roles' = f.roles
           /\ command_part_list' = f.command_part_list
           /\ current_command' = f.current_command
           /\ subcommand_idx' = f.subcommand_idx
           /\ command' = f.command
           /\ raw_args' = f.raw_args
           /\ permission_denied' = f.permission_denied
           /\ ret' = f.ret
           /\ replies' = f.replies
           /\ logs' = f.logs
           /\ reports' = f.reports
           /\ invoked' = f.invoked
           /\ visited' = f.visited
    /\ UNCHANGED <<treeVars, bindVars, lineVars, buildVars, loadVars, checkVars,
                   scheduleVars, lastVars>>

SwitchFirst == Switch("first")
SwitchSecond == Switch("second")

NextPair ==
    \/ ReceiveInterleaved
    \/ ParseRootDenied
    \/ ParseStart
    \/ ParseNoMatch
    \/ ParseChildDenied
    \/ ParseDescend
    \/ ParseLeaf
    \/ HandleDenied
    \/ HandleInvalidSubcommand
    \/ HandleInvoke
    \/ HandleResult
    \/ SwitchFirst
    \/ SwitchSecond

SpecPair == PairInit /\ [][NextPair]_vars

\* the frame of a handle() call, running or not
FrameOf(d) == IF d = schedule[Len(schedule)] THEN Frame ELSE frames[d]

\* C27: a dispatch interleaved with the dispatch of another message at the
\* points where a handler is awaited sends the same replies, writes the same
\* logs and forwards the same reports, in the same order, and ends the same
\* way, as the dispatch of the same event run with no other in flight, given
\* the same ReturnValue of its handler.
C27_Independence ==
    LET a == FrameOf("first")
        r == FrameOf("alone")
    IN  (a.pc \in {"done", "raised"} /\ a.ret = r.ret) =>
            /\ a.replies = r.replies
            /\ a.logs = r.logs
            /\ a.reports = r.reports
            /\ a.pc = r.pc

\* the first call was suspended in its handler, the second call handled a
\* different message from start to end meanwhile, then the first call was
\* resumed and finished
C27_Witness ==
    /\ schedule = <<"alone", "first", "second", "first">>
    /\ pc = "done"
    /\ Len(invoked) = 1
    /\ replies # <<>>
    /\ frames["second"].pc = "done"
    /\ frames["second"].replies # <<>>
    /\ frames["second"].command_part_list # command_part_list

(* The usage line of a Function (checked under SpecBind) *)

\* C28: get_param_inline of a Function is the fragment <name:type> of every
\* fixed description in order, then [<name:type>] for an optional parameter
\* or [<name:type> ...] for a variable one, with exactly one space between
\* every two neighbouring fragments, also between the last fixed fragment
\* and the fragment of the optional or variable parameter.
C28_UsageLine ==
    LET fixed == function.fixed_param_desc_list
        Fragment(d) == <<"<", d[1], ":", d[2], ">">>
        fragments ==
            [i \in DOMAIN fixed |-> Fragment(fixed[i])]
            \o (CASE function.variant = "Fixed" -> <<>>
                  [] function.variant = "Optional" ->
                        <<<<"[">> \o Fragment(function.optional_param_desc)
                                  \o <<"]">>>>
                  [] function.variant = "Variable" ->
                        <<<<"[">> \o Fragment(function.variable_param_desc)
                                  \o <<" ...]">>>>)
    IN  GetParamInline(function) = Join(fragments, " ")

(* The caller's roles (checked under Spec) *)

\* C29: throughout a dispatch the caller's role set holds exactly the role
\* names whose configured identity set contains the sender's user_id, as
\* computed from the mapping when the dispatch started.
C29_RoleSet ==
    pc # "idle" =>
        /\ roles \subseteq RoleNames
        /\ \A r \in RoleNames :
              r \in roles <=> user_id \in role_to_qq_uin_set_map[r]

\* a sender configured for both roles was dispatched with both, and a sender
\* configured for none would have none
C29_Witness ==
    /\ pc = "parsed"
    /\ user_id = 2
    /\ roles = {"admin", "user"}
    /\ GetRoles(4) = {}

(* The schedule plugin's add handlers (SpecSchedule) *)

\* the senders and the schedule names of the events
ScheduleUsers == {1, 2}
ScheduleNames == {"a", "b"}

\* a ReturnValue object: its identity and the fields the handlers set
NewReturnValue(id, code, reply, report) ==
    [id |-> id, code |-> code, reply |-> reply, report |-> report]

\* "x is y" of two objects
Is(x, y) == x.id = y.id

\* users[uid].nickname + "'s schedule"
DefaultScheduleName(uid) == "user" \o ToString(uid) \o "'s schedule"

\* a value of user_schedules: the list of a user's schedules, or the one
\* Schedule object that update() stores; names are the schedules it holds
ScheduleList(names) == [kind |-> "list", names |-> names]
OneSchedule(name) == [kind |-> "Schedule", names |-> {name}]

\* the states a SchedulePluginState is in before a handler runs: as
\* __init_state__ made it or as from_dict loaded it, where user_schedules maps
\* the uid of a user to a list of schedules of the global list
ScheduleStates ==
    UNION {{[users |-> us, schedules |-> ns,
             user_schedules |->
                 [u \in ls |-> ScheduleList(IF u = 1 THEN ns ELSE {})]] :
               ns \in SUBSET ScheduleNames, ls \in SUBSET us} :
           us \in SUBSET ScheduleUsers}

\* no handler has been called
NotHandled == [handler |-> "", inner |-> None, raised |-> FALSE, ret |-> None]

ScheduleInit ==
    /\ limited_roles = [c \in Nodes |-> None]
    /\ full_name = RootCommandInit
    /\ report_gid = None
    /\ DispatchIdle
    /\ BindIdle
    /\ LineIdle
    /\ BuildIdle
    /\ LoadIdle
    /\ CheckIdle
    /\ PairIdle
    /\ LastIdle
    /\ state \in ScheduleStates
    /\ handled = NotHandled

\* __add_schedule__(uid, name) on the state st, name being None or Some(text),
\* its ReturnValue getting the identity id: the state it leaves, whether it
\* raised (append on the Schedule object that update() stored for the uid),
\* and the ReturnValue
AddScheduleInner(st, uid, name, id) ==
    IF ~IsNone(name) /\ name[1] \in st.schedules
    THEN [state |-> st, raised |-> FALSE,
          ret |-> Some(NewReturnValue(id, 1, Some(<<"schedule ", name[1], " exists">>), None))]
    ELSE LET n == IF ~IsNone(name) /\ name[1] # "" THEN name[1]
                  ELSE DefaultScheduleName(uid)
         IN  IF uid \notin DOMAIN st.user_schedules
             THEN [state |-> [st EXCEPT
                                !.user_schedules =
                                    [u \in DOMAIN st.user_schedules \cup {uid} |->
                                        IF u = uid THEN OneSchedule(n)
                                        ELSE st.user_schedules[u]],
                                !.schedules = @ \cup {n}],
                   raised |-> FALSE,
                   ret |-> Some(NewReturnValue(id, 0, None, None))]
             ELSE IF st.user_schedules[uid].kind = "list"
             THEN [state |-> [st EXCEPT
                                !.user_schedules[uid].names = @ \cup {n},
                                !.schedules = @ \cup {n}],
                   raised |-> FALSE,
                   ret |-> Some(NewReturnValue(id, 0, None, None))]
             ELSE [state |-> st, raised |-> TRUE, ret |-> None]

\* the handler add_schedule(name), called for an event of the sender uid
AddSchedule ==
    /\ \E uid \in ScheduleUsers, name \in ScheduleNames :
          IF uid \notin state.users
          THEN /\ handled' = [handler |-> "add_schedule", inner |-> None,
                              raised |-> FALSE,
                              ret |-> Some(NewReturnValue(1, 1,
                                              Some(<<"no such user">>), None))]
               /\ state' = state
          ELSE LET inner == AddScheduleInner(state, uid, Some(name), 1)
                   fresh == NewReturnValue(2, 0, None, None)
               IN  /\ state' = inner.state
                   /\ handled' =
                         [handler |-> "add_schedule",
                          inner |-> inner.ret,
                          raised |-> inner.raised,
                          ret |-> IF inner.raised THEN None
                                  ELSE IF Is(inner.ret[1], fresh)
                                  THEN Some(NewReturnValue(3, 0,
                                          Some(<<"schedule ", name, " added">>), None))
                                  ELSE inner.ret]
    /\ UNCHANGED <<treeVars, dispatchVars, bindVars, lineVars, buildVars,
                   loadVars, checkVars, pairVars, lastVars>>

\* the handler add_user(*nickname), called for an event of the sender uid
AddUser ==
    /\ \E uid \in ScheduleUsers :
          IF uid \in state.users
          THEN /\ handled' = [handler |-> "add_user", inner |-> None,
                              raised |-> FALSE,
                              ret |-> Some(NewReturnValue(1, 1,
                                              Some(<<"user ", ToString(uid), " exists">>), None))]
               /\ state' = state
          ELSE LET added == [state EXCEPT !.users = @ \cup {uid}]
                   inner == AddScheduleInner(added, uid, None, 1)
                   fresh == NewReturnValue(2, 0, None, None)
               IN  /\ state' = inner.state
                   /\ handled' =
                         [handler |-> "add_user",
                          inner |-> inner.ret,
                          raised |-> FALSE,
                          ret |-> IF inner.raised
                                  THEN Some(NewReturnValue(1, 2, None,
                                               Some(<<"add_user error">>)))
                                  ELSE IF ~Is(inner.ret[1], fresh)
                                  THEN inner.ret
                                  ELSE Some(NewReturnValue(3, 0,
                                          Some(<<"user ", ToString(uid), " added">>), None))]
    /\ UNCHANGED <<treeVars, dispatchVars, bindVars, lineVars, buildVars,
                   loadVars, checkVars, pairVars, lastVars>>

\* the handler remove_user(), called for an event of the sender uid: the
\* loop over a Schedule object yields its fields, which schedules.remove()
\* does not find; every exception is caught after the pops before it
RemoveUser ==
    /\ \E uid \in ScheduleUsers :
          IF uid \notin state.users
          THEN /\ state' = state
               /\ handled' = [handler |-> "remove_user", inner |-> None,
                              raised |-> FALSE,
                              ret |-> Some(NewReturnValue(1, 2,
                                              Some(<<"KeyError">>),
                                              Some(<<"remove_user error">>)))]
          ELSE LET popped == [state EXCEPT !.users = @ \ {uid}]
               IN  IF uid \notin DOMAIN state.user_schedules
                   THEN /\ state' = popped
                        /\ handled' = [handler |-> "remove_user", inner |-> None,
                                       raised |-> FALSE,
                                       ret |-> Some(NewReturnValue(1, 0,
                                                Some(<<"user ", ToString(uid),
                                                       " removed">>), None))]
                   ELSE IF state.user_schedules[uid].kind = "list"
                   THEN /\ state' =
                              [popped EXCEPT
                                 !.schedules = @ \ state.user_schedules[uid].names,
                                 !.user_schedules =
                                     [u \in DOMAIN state.user_schedules \ {uid} |->
                                         state.user_schedules[u]]]
                        /\ handled' = [handler |-> "remove_user", inner |-> None,
                                       raised |-> FALSE,
                                       ret |-> Some(NewReturnValue(1, 0,
                                                Some(<<"user ", ToString(uid),
                                                       " removed">>), None))]
                   ELSE /\ state' = popped
                        /\ handled' = [handler |-> "remove_user", inner |-> None,
                                       raised |-> FALSE,
                                       ret |-> Some(NewReturnValue(1, 2,
                                                Some(<<"ValueError">>),
                                                Some(<<"remove_user error">>)))]
    /\ UNCHANGED <<treeVars, dispatchVars, bindVars, lineVars, buildVars,
                   loadVars, checkVars, pairVars, lastVars>>

\* the handler create_course_with_schedule(name, place, time), called with a
\* valid time for an event of the sender uid: the course goes to the first
\* schedule of the sender, made by __add_schedule__ if there is none
CreateCourseWithSchedule ==
    /\ \E uid \in ScheduleUsers :
          IF uid \in DOMAIN state.user_schedules
          THEN /\ state' = state
               /\ handled' =
                     [handler |-> "create_course_with_schedule", inner |-> None,
                      raised |-> \/ state.user_schedules[uid].kind # "list"
                                 \/ state.user_schedules[uid].names = {},
                      ret |-> IF \/ state.user_schedules[uid].kind # "list"
                                 \/ state.user_schedules[uid].names = {}
                              THEN None
                              ELSE Some(NewReturnValue(1, 0,
                                          Some(<<"course added">>), None))]
          ELSE IF uid \notin state.users
          THEN /\ state' = state
               /\ handled' = [handler |-> "create_course_with_schedule",
                              inner |-> None, raised |-> TRUE, ret |-> None]
          ELSE LET inner == AddScheduleInner(state, uid, None, 1)
               IN  /\ state' = inner.state
                   /\ handled' = [handler |-> "create_course_with_schedule",
                                  inner |-> inner.ret, raised |-> TRUE,
                                  ret |-> None]
    /\ UNCHANGED <<treeVars, dispatchVars, bindVars, lineVars, buildVars,
                   loadVars, checkVars, pairVars, lastVars>>

NextSchedule == AddSchedule \/ AddUser \/ RemoveUser \/ CreateCourseWithSchedule

SpecSchedule == ScheduleInit /\ [][NextSchedule]_vars

\* C30: when the __add_schedule__ step of add_schedule or of add_user
\* returned a ReturnValue of code 0, the handler returns its success reply
\* with code 0: "schedule <name> added" for add_schedule, "user <nickname>
\* added" for add_user.
C30_SuccessDetection ==
    (/\ handled.handler \in {"add_schedule", "add_user"}
     /\ ~IsNone(handled.inner)
     /\ handled.inner[1].code = 0) =>
        /\ ~IsNone(handled.ret)
        /\ handled.ret[1].code = 0
        /\ ~IsNone(handled.ret[1].reply)
        /\ handled.ret[1].reply[1][Len(handled.ret[1].reply[1])] = " added"

(* Resolution accounts for every token (checked under Spec) *)

\* C31: _parse_command ends, every iteration of its loop either returning or
\* moving one token on within the list; the node it returns lies on a path
\* from the RootCommand, the leftover is a suffix of the tokens, the names on
\* that path followed by the leftover are the tokens, and the node's
\* full_name is the consumed tokens joined by single spaces.
C31_Resolution ==
    /\ [](Parsed =>
            LET path == PathTo(command)
                names == [i \in DOMAIN path |-> CommandTree[path[i]].name]
                consumed == Len(command_part_list) - Len(raw_args)
            IN  /\ path[1] = RootNode
                /\ consumed = Len(path)
                /\ raw_args = SubSeq(command_part_list, consumed + 1,
                                     Len(command_part_list))
                /\ names \o raw_args = command_part_list
                /\ full_name[command]
                      = JoinWords(SubSeq(command_part_list, 1, consumed)))
    /\ [][pc = "walk" =>
            \/ pc' = "parsed"
            \/ /\ pc' = "walk"
               /\ subcommand_idx' = subcommand_idx + 1
               /\ subcommand_idx' <= Len(command_part_list)]_vars

\* "ctrl state save 7" was denied at save: save is returned with the
\* leftover "7"
C31_Witness ==
    /\ Parsed
    /\ permission_denied
    /\ command = "save"
    /\ command_part_list = <<"ctrl", "state", "save", "7">>
    /\ raw_args = <<"7">>

(* Help and dispatch on the same sub-command (checked under Spec) *)

\* C32: for every RootCommand or InternalCommand, each of its sub-commands
\* and the caller's roles, help_info lists the sub-command if and only if
\* _parse_command does not deny the caller at that sub-command.
C32_HelpDispatchAgree ==
    pc # "idle" =>
        \A c \in Nodes :
            IsInternalCommand(c) =>
                \A sub \in Range(CommandTree[c].subcommand_list) :
                    sub \in Range(ListedSubcommands(c, roles, limited_roles))
                        <=> ~RoleDenied(limited_roles[sub], roles)

(* The help command (SpecHelp) *)

\* the arguments given to help: none, a name no plugin has, and paths into
\* the tree of the registered plugin
HelpArgs ==
    {<<>>, <<"nope">>, <<"ctrl">>, <<"ctrl", "del">>,
     <<"ctrl", "state", "save">>, <<"ctrl", "echo", "7">>}

\* the handler help is called for an event of a group, the registry holding
\* one command handler plugin, with its tree and its limited_group_id_set
HelpInit ==
    /\ TreeInit
    /\ BindIdle
    /\ BuildIdle
    /\ LaterIdle
    /\ message = <<>>
    /\ group_id \in {100, 200}
    /\ limited_group_id_set \in {None, Some({100})}
    /\ pc = "help"
    /\ user_id \in UserIds
    /\ roles = {}
    /\ command_part_list \in HelpArgs
    /\ current_command = RootNode
    /\ subcommand_idx = 0
    /\ command = RootNode
    /\ raw_args = <<>>
    /\ permission_denied = FALSE
    /\ ret = NoReturn
    /\ replies = <<>>
    /\ logs = <<>>
    /\ reports = <<>>
    /\ invoked = <<>>
    /\ visited = <<>>

\* _get_available_command_handler_plugin_list keeps the plugin: its groups
\* include the event's group and its command does not deny the sender
Available ==
    /\ ~GroupFiltered
    /\ ~RoleDenied(limited_roles[RootNode], GetRoles(user_id))

\* the reply listing the available commands
AvailableList ==
    IF Available
    THEN <<"commands:", "* ", CommandTree[RootNode].name, ": ",
           CommandTree[RootNode].desc>>
    ELSE <<"no command available">>

\* what the statements of help leave alone
HelpFrame ==
    UNCHANGED <<user_id, command_part_list, current_command, subcommand_idx,
                command, raw_args, permission_denied, logs, reports, invoked,
                visited, treeVars, bindVars, restVars>>

\* help(): no argument, the available commands are listed
HelpListAll ==
    /\ pc = "help"
    /\ command_part_list = <<>>
    /\ replies' = Append(replies, AvailableList)
    /\ ret' = ReturnValue(0, None, None, None, FALSE)
    /\ pc' = "done"
    /\ UNCHANGED roles
    /\ HelpFrame

\* help(): no registered plugin has a command of that name
HelpNotFound ==
    /\ pc = "help"
    /\ command_part_list # <<>>
    /\ command_part_list[1] # CommandTree[RootNode].name
    /\ replies' = replies \o <<<<"command not found: ", command_part_list[1]>>,
                               AvailableList>>
    /\ ret' = ReturnValue(1, Some(<<"Command not found: ", command_part_list[1]>>),
                          None, None, FALSE)
    /\ pc' = "done"
    /\ UNCHANGED roles
    /\ HelpFrame

\* help(): the plugin of that name is found, an instance of it computes the
\* sender's roles and resolves the arguments with its _parse_command
HelpLookup ==
    /\ pc = "help"
    /\ command_part_list # <<>>
    /\ command_part_list[1] = CommandTree[RootNode].name
    /\ roles' = GetRoles(user_id)
    /\ pc' = "parse"
    /\ UNCHANGED <<replies, ret>>
    /\ HelpFrame

\* help(): if permission_denied
HelpDenied ==
    /\ pc = "parsed"
    /\ permission_denied
    /\ replies' = Append(replies, PermissionDeniedReply(command))
    /\ ret' = ReturnValue(1, Some(<<"Permission denied: ", full_name[command]>>),
                          None, None, FALSE)
    /\ pc' = "done"
    /\ UNCHANGED roles
    /\ HelpFrame

\* help(): if args
HelpInvalid ==
    /\ pc = "parsed"
    /\ ~permission_denied
    /\ raw_args # <<>>
    /\ replies' = Append(replies, <<"invalid command: ",
                                    Repr(full_name[command] \o " " \o raw_args[1])>>)
    /\ ret' = ReturnValue(1, Some(<<"Invalid command: ",
                                    Repr(full_name[command] \o " " \o raw_args[1])>>),
                          None, None, FALSE)
    /\ pc' = "done"
    /\ UNCHANGED roles
    /\ HelpFrame

\* help(): the help text of the resolved command is the reply
HelpReply ==
    /\ pc = "parsed"
    /\ ~permission_denied
    /\ raw_args = <<>>
    /\ ReplyHelpAndReturn(replies)
    /\ ret' = IF HelpInfo(command, roles, limited_roles, full_name).raised
              THEN ret
              ELSE ReturnValue(0, None, None, None, FALSE)
    /\ UNCHANGED roles
    /\ HelpFrame

NextHelp ==
    \/ HelpListAll
    \/ HelpNotFound
    \/ HelpLookup
    \/ ParseRootDenied
    \/ ParseStart
    \/ ParseIncomplete
    \/ ParseNoMatch
    \/ ParseChildDenied
    \/ ParseDescend
    \/ ParseLeaf
    \/ HelpDenied
    \/ HelpInvalid
    \/ HelpReply

SpecHelp == HelpInit /\ [][NextHelp]_vars

\* help replied with the help text of a command of the plugin's tree
HelpTextSent ==
    /\ pc = "done"
    /\ command_part_list # <<>>
    /\ ~permission_denied
    /\ raw_args = <<>>
    /\ replies # <<>>
    /\ replies[Len(replies)]
          = HelpInfo(command, roles, limited_roles, full_name).text

\* C33: help with arguments replies with the help text of a command only if
\* the command's plugin would be in the same sender's help listing: the
\* plugin's groups include the event's group and its command does not deny
\* the sender's roles.
C33_HelpDisclosure ==
    HelpTextSent =>
        /\ IsNone(limited_group_id_set) \/ group_id \in limited_group_id_set[1]
        /\ ~RoleDenied(limited_roles[RootNode], roles)

(* The state of the schedule plugin (checked under SpecSchedule) *)

\* C34: after any calls of the schedule handlers, every value of
\* user_schedules is a list of schedules, every schedule of such a list is in
\* the global list schedules, and every key of user_schedules is the uid of a
\* user; and no exception leaves add_schedule.
C34_ScheduleState ==
    /\ \A u \in DOMAIN state.user_schedules :
          /\ state.user_schedules[u].kind = "list"
          /\ state.user_schedules[u].names \subseteq state.schedules
          /\ u \in state.users
    /\ handled.handler = "add_schedule" => ~handled.raised

(* The login of an MSContestManager (checked under SpecLogin) *)

\* how many API calls are in flight together
MaxTasks == 2

Tasks == 1 .. MaxTasks

\* the statuses the server answers a request with
Statuses == {200, 401, 500}

\* everything beside the manager at rest, under a tree of unlimited nodes
ElseIdle ==
    /\ limited_roles = [c \in Nodes |-> None]
    /\ full_name = RootCommandInit
    /\ report_gid = None
    /\ DispatchIdle
    /\ BindIdle
    /\ LineIdle
    /\ BuildIdle
    /\ LoadIdle
    /\ CheckIdle
    /\ PairIdle
    /\ ScheduleIdle

\* a manager as __init__ leaves it: not logged in, the lock free with nobody
\* waiting; no call was made yet
LoginInit ==
    /\ ElseIdle
    /\ FetchIdle
    /\ ProbIdle
    /\ logged_in = FALSE
    /\ login_lock = [holder |-> 0, waiters |-> <<>>]
    /\ tasks = [t \in Tasks |->
                  [pc |-> "idle", waited |-> FALSE, sent_as |-> None,
                   resp |-> None]]
    /\ seen = [logins |-> 0, failed |-> FALSE]

\* the wrapper of _init_login up to its first suspension, for task t under
\* the lock lk: with logged_in set the request goes out; otherwise the lock is
\* taken, when it is free and nobody waits for it, and login() is called
Entered(t, lk) ==
    IF logged_in
    THEN [pc |-> "sent", lock |-> lk, logins |-> seen.logins,
          sent_as |-> Some(logged_in)]
    ELSE IF lk.holder = 0 /\ lk.waiters = <<>>
    THEN [pc |-> "login", lock |-> [lk EXCEPT !.holder = t],
          logins |-> Min(seen.logins + 1, MaxTasks), sent_as |-> tasks[t].sent_as]
    ELSE [pc |-> "wait", lock |-> [lk EXCEPT !.waiters = Append(@, t)],
          logins |-> seen.logins, sent_as |-> tasks[t].sent_as]

LoginUnchanged ==
    UNCHANGED <<treeVars, dispatchVars, bindVars, lineVars, buildVars,
                loadVars, checkVars, pairVars, scheduleVars, fetchVars,
                probVars>>

\* an API call starts
ApiCall(t) ==
    /\ tasks[t].pc = "idle"
    /\ LET e == Entered(t, login_lock)
       IN  /\ tasks' = [tasks EXCEPT ![t].pc = e.pc, ![t].sent_as = e.sent_as]
           /\ login_lock' = e.lock
           /\ seen' = [seen EXCEPT !.logins = e.logins]
    /\ UNCHANGED logged_in
    /\ LoginUnchanged

\* _init_login with the second test of logged_in left out
Acquire_NoRecheck(t) ==
    /\ tasks[t].pc = "wait"
    /\ login_lock.holder = 0
    /\ login_lock.waiters # <<>>
    /\ Head(login_lock.waiters) = t
    /\ tasks' = [tasks EXCEPT ![t].pc = "login", ![t].waited = TRUE]
    /\ login_lock' = [holder |-> t, waiters |-> Tail(login_lock.waiters)]
    /\ seen' = [seen EXCEPT !.logins = Min(@ + 1, MaxTasks)]
    /\ UNCHANGED logged_in
    /\ LoginUnchanged

\* the lock of _init_login goes to the task that waited longest, which tests
\* logged_in again: set, it leaves the lock and sends its request; not set, it
\* calls login()
Acquire(t) ==
    /\ tasks[t].pc = "wait"
    /\ login_lock.holder = 0
    /\ login_lock.waiters # <<>>
    /\ Head(login_lock.waiters) = t
    /\ IF logged_in
       THEN /\ tasks' = [tasks EXCEPT ![t].pc = "sent", ![t].waited = TRUE,
                                      ![t].sent_as = Some(logged_in)]
            /\ login_lock' = [holder |-> 0, waiters |-> Tail(login_lock.waiters)]
            /\ seen' = seen
       ELSE /\ tasks' = [tasks EXCEPT ![t].pc = "login", ![t].waited = TRUE]
            /\ login_lock' = [holder |-> t, waiters |-> Tail(login_lock.waiters)]
            /\ seen' = [seen EXCEPT !.logins = Min(@ + 1, MaxTasks)]
    /\ UNCHANGED logged_in
    /\ LoginUnchanged

\* login() of _init_login returns True or False: logged_in takes the value,
\* the lock is left, the request goes out
LoginReturns(t) ==
    /\ tasks[t].pc = "login"
    /\ \E ok \in BOOLEAN :
          /\ logged_in' = ok
          /\ seen' = [seen EXCEPT !.failed = @ \/ ~ok]
          /\ tasks' = [tasks EXCEPT ![t].pc = "sent", ![t].sent_as = Some(ok)]
    /\ login_lock' = [login_lock EXCEPT !.holder = 0]
    /\ LoginUnchanged

\* the server answers the request: _login_and_retry returns every answer but
\* 401, and goes for the lock on 401
Respond(t) ==
    /\ tasks[t].pc = "sent"
    /\ \E status \in Statuses :
          IF status = 401
          THEN IF login_lock.holder = 0 /\ login_lock.waiters = <<>>
               THEN /\ tasks' = [tasks EXCEPT ![t].pc = "relogin"]
                    /\ login_lock' = [login_lock EXCEPT !.holder = t]
               ELSE /\ tasks' = [tasks EXCEPT ![t].pc = "rewait"]
                    /\ login_lock' = [login_lock EXCEPT !.waiters = Append(@, t)]
          ELSE /\ tasks' = [tasks EXCEPT ![t].pc = "returned",
                                         ![t].resp = Some(status)]
               /\ login_lock' = login_lock
    /\ UNCHANGED <<logged_in, seen>>
    /\ LoginUnchanged

\* the lock of _login_and_retry goes to the task that waited longest
Reacquire(t) ==
    /\ tasks[t].pc = "rewait"
    /\ login_lock.holder = 0
    /\ login_lock.waiters # <<>>
    /\ Head(login_lock.waiters) = t
    /\ tasks' = [tasks EXCEPT ![t].pc = "relogin"]
    /\ login_lock' = [holder |-> t, waiters |-> Tail(login_lock.waiters)]
    /\ UNCHANGED <<logged_in, seen>>
    /\ LoginUnchanged

\* login() of _login_and_retry returns: on False the call returns None; on
\* True the lock is left and the wrapped function is called again
ReloginReturns(t) ==
    /\ tasks[t].pc = "relogin"
    /\ \E ok \in BOOLEAN :
          IF ok
          THEN LET e == Entered(t, [login_lock EXCEPT !.holder = 0])
               IN  /\ tasks' = [tasks EXCEPT ![t].pc = e.pc,
                                             ![t].sent_as = e.sent_as]
                   /\ login_lock' = e.lock
                   /\ seen' = [seen EXCEPT !.logins = e.logins]
          ELSE /\ tasks' = [tasks EXCEPT ![t].pc = "returned", ![t].resp = None]
               /\ login_lock' = [login_lock EXCEPT !.holder = 0]
               /\ seen' = seen
    /\ UNCHANGED logged_in
    /\ LoginUnchanged

TaskStep(t) ==
    \/ ApiCall(t)
    \/ Acquire(t)
    \/ LoginReturns(t)
    \/ Respond(t)
    \/ Reacquire(t)
    \/ ReloginReturns(t)

NextLogin == \E t \in Tasks : TaskStep(t)

SpecLogin == LoginInit /\ [][NextLogin]_vars

\* the event loop runs every task that can run, and the server answers every
\* request
SpecLoginFair == SpecLogin /\ \A t \in Tasks : WF_vars(TaskStep(t))

\* the calls whose request went out
Sent == {t \in Tasks : ~IsNone(tasks[t].sent_as)}

\* C35: while no login() of the initial-login step failed, that step called
\* login() at most once, exactly once when a request went out, and every
\* request went out with logged_in set; and with logged_in set the step calls
\* login() no more and logged_in stays set.
C35_SingleLogin ==
    /\ [](~seen.failed =>
             /\ seen.logins <= 1
             /\ Sent # {} => seen.logins = 1
             /\ \A t \in Sent : tasks[t].sent_as = Some(TRUE))
    /\ [][logged_in => logged_in' /\ seen'.logins = seen.logins]_vars

\* two calls were made together, the second waited for the lock and skipped
\* login(), and both sent their requests
C35_Witness ==
    /\ ~seen.failed
    /\ seen.logins = 1
    /\ Sent = Tasks
    /\ \E t \in Tasks : tasks[t].waited

\* C36: every call wrapped by _login_and_retry returns in the end, whatever
\* the server answers.
C36_RetryTerminates == <>(\A t \in Tasks : tasks[t].pc = "returned")

(* The paged fetches of an MSContestManager (checked under SpecFetch) *)

\* how many players or records the server holds at most
MaxTotal == 21

\* the limit every page is requested with
PageLimit == 10

\* what the server holds: the entries 1 .. total, in its order
Entries(total) == [i \in 1 .. total |-> i]

\* the page the server gives for an offset and the limit: the total, and the
\* entries from the offset on, the limit at most
Page(total, offset) ==
    [total |-> total,
     list |-> SubSeq(Entries(total), offset + 1, Min(offset + PageLimit, total))]

\* a call of fetch_player_list or of fetch_game_record_list about to make its
\* first request
FetchInit ==
    /\ ElseIdle
    /\ LoginIdle
    /\ ProbIdle
    /\ server \in {[total |-> n] : n \in 0 .. MaxTotal}
    /\ \E method \in {"fetch_player_list", "fetch_game_record_list"} :
          fetch = [method |-> method, pc |-> "first", offsets |-> <<>>,
                   count |-> 0, list |-> <<>>, failed |-> FALSE,
                   value |-> None]

FetchUnchanged ==
    UNCHANGED <<treeVars, dispatchVars, bindVars, lineVars, buildVars,
                loadVars, checkVars, pairVars, scheduleVars, loginVars,
                probVars, server>>

\* the request of the page at offset 0: without a page the call returns None,
\* with one it takes the total and the entries of the page
FetchFirst ==
    /\ fetch.pc = "first"
    /\ \E ok \in BOOLEAN :
          fetch' = IF ok
                   THEN [fetch EXCEPT !.pc = "loop", !.offsets = <<0>>,
                                      !.count = Page(server.total, 0).total,
                                      !.list = Page(server.total, 0).list]
                   ELSE [fetch EXCEPT !.pc = "returned", !.offsets = <<0>>,
                                      !.failed = TRUE, !.value = None]
    /\ FetchUnchanged

\* the offset of the next turn of the loop over range(10, count, 10)
NextOffset == fetch.offsets[Len(fetch.offsets)] + PageLimit

\* a turn of the loop: the request of the next page
FetchNext ==
    /\ fetch.pc = "loop"
    /\ NextOffset < fetch.count
    /\ \E ok \in BOOLEAN :
          fetch' = IF ok
                   THEN [fetch EXCEPT
                           !.offsets = Append(@, NextOffset),
                           !.list = @ \o Page(server.total, NextOffset).list]
                   ELSE [fetch EXCEPT !.pc = "returned",
                                      !.offsets = Append(@, NextOffset),
                                      !.failed = TRUE, !.value = None]
    /\ FetchUnchanged

\* after the loop fetch_player_list ends with a bare return
FetchPlayerReturn ==
    /\ fetch.pc = "loop"
    /\ fetch.method = "fetch_player_list"
    /\ NextOffset >= fetch.count
    /\ fetch' = [fetch EXCEPT !.pc = "returned", !.value = None]
    /\ FetchUnchanged

\* after the loop fetch_game_record_list returns the list
FetchRecordReturn ==
    /\ fetch.pc = "loop"
    /\ fetch.method = "fetch_game_record_list"
    /\ NextOffset >= fetch.count
    /\ fetch' = [fetch EXCEPT !.pc = "returned", !.value = Some(fetch.list)]
    /\ FetchUnchanged

NextFetch ==
    \/ FetchFirst
    \/ FetchNext
    \/ FetchPlayerReturn
    \/ FetchRecordReturn

SpecFetch == FetchInit /\ [][NextFetch]_vars

\* the offsets 0, 10, 20, ... below a total
OffsetsBelow(total) ==
    [i \in 1 .. (IF total = 0 THEN 1 ELSE (total + PageLimit - 1) \div PageLimit) |->
        (i - 1) * PageLimit]

FetchReturned(method) == fetch.pc = "returned" /\ fetch.method = method

\* C37: a call of fetch_player_list that returned after every page request
\* succeeded requested the offsets 0, 10, 20, ... below the total and
\* returned all the players in page order; it returned None only when a page
\* request failed.
C37_PlayerList ==
    FetchReturned("fetch_player_list") =>
        IF fetch.failed
        THEN fetch.value = None
        ELSE /\ fetch.offsets = OffsetsBelow(server.total)
             /\ fetch.value = Some(Entries(server.total))

\* the same of fetch_game_record_list, which the claim compares with
FetchRecordList ==
    FetchReturned("fetch_game_record_list") =>
        IF fetch.failed
        THEN fetch.value = None
        ELSE /\ fetch.offsets = OffsetsBelow(server.total)
             /\ fetch.value = Some(Entries(server.total))

(* The weighted choice of prob.py (checked under SpecProb) *)

\* how many argument groups weighted_call is given at most, and how large a
\* weight is at most
MaxGroups == 3
MaxWeight == 2

\* list(accumulate(weights)): the sums of the first 1, 2, ... weights
RECURSIVE Accumulate(_)
Accumulate(ws) ==
    IF ws = <<>> THEN <<>>
    ELSE LET front == Accumulate(SubSeq(ws, 1, Len(ws) - 1))
         IN  Append(front,
                    (IF front = <<>> THEN 0 ELSE front[Len(front)]) + ws[Len(ws)])

\* bisect that goes on to the right of the entries equal to x
RECURSIVE BisectLeft_Right(_, _, _, _)
BisectLeft_Right(a, x, lo, hi) ==
    IF lo < hi
    THEN LET mid == (lo + hi) \div 2
         IN  IF x < a[mid + 1]
             THEN BisectLeft_Right(a, x, lo, mid)
             ELSE BisectLeft_Right(a, x, mid + 1, hi)
    ELSE lo

\* bisect.bisect_left(a, x) between the indexes lo and hi, counted from 0 as
\* Python counts them
RECURSIVE BisectLeft(_, _, _, _)
BisectLeft(a, x, lo, hi) ==
    IF lo < hi
    THEN LET mid == (lo + hi) \div 2
         IN  IF a[mid + 1] < x
             THEN BisectLeft(a, x, mid + 1, hi)
             ELSE BisectLeft(a, x, lo, mid)
    ELSE lo

\* a call of weighted_call about to run, with the weights of its groups
ProbInit ==
    /\ ElseIdle
    /\ LoginIdle
    /\ FetchIdle
    /\ weighted_args \in UNION {[1 .. n -> -1 .. MaxWeight] : n \in 0 .. MaxGroups}
    /\ draw = [pc |-> "start", rand |-> None, idx |-> None, raised |-> None,
               called |-> None]

ProbUnchanged ==
    UNCHANGED <<treeVars, dispatchVars, bindVars, lineVars, buildVars,
                loadVars, checkVars, pairVars, scheduleVars, loginVars,
                fetchVars, weighted_args>>

\* the two tests at the head of weighted_call raise ValueError
WeightedCallRaises ==
    /\ draw.pc = "start"
    /\ \/ weighted_args = <<>>
       \/ \E i \in DOMAIN weighted_args : weighted_args[i] < 0
    /\ draw' = [draw EXCEPT !.pc = "done", !.raised = Some("ValueError")]
    /\ ProbUnchanged

\* the weights of a call that passes the two tests
Weighable ==
    /\ draw.pc = "start"
    /\ weighted_args # <<>>
    /\ \A i \in DOMAIN weighted_args : weighted_args[i] >= 0

total_weight == Accumulate(weighted_args)[Len(weighted_args)]

\* with the weights all 0, random.randint(1, 0) raises ValueError
RandintRaises ==
    /\ Weighable
    /\ total_weight < 1
    /\ draw' = [draw EXCEPT !.pc = "done", !.raised = Some("ValueError")]
    /\ ProbUnchanged

\* a value between 1 and the total is drawn, looked up in the partial sums,
\* and func is called with the group found
WeightedCall ==
    /\ Weighable
    /\ \E rand \in 1 .. total_weight :
          LET found == BisectLeft(Accumulate(weighted_args), rand, 0,
                                  Len(weighted_args))
          IN  draw' = [draw EXCEPT !.pc = "done", !.rand = Some(rand),
                                   !.idx = Some(found),
                                   !.called = Some(found + 1)]
    /\ ProbUnchanged

NextProb == WeightedCallRaises \/ RandintRaises \/ WeightedCall

SpecProb == ProbInit /\ [][NextProb]_vars

\* the sum of the first i weights
PrefixSum(i) == IF i = 0 THEN 0 ELSE Accumulate(weighted_args)[i]

\* the draws that choose group i
DrawsOf(i) ==
    {r \in 1 .. total_weight :
        BisectLeft(Accumulate(weighted_args), r, 0, Len(weighted_args)) + 1 = i}

\* C38: for a non-empty list of weights, none negative and one positive, the
\* group called is the only group i with prefix_sum(i-1) < r <= prefix_sum(i)
\* for the draw r, every group is chosen by as many of the draws as its weight
\* says, a group of weight 0 by none; an empty list or a negative weight
\* raises ValueError and func is not called.
C38_WeightedChoice ==
    draw.pc = "done" =>
        IF \/ weighted_args = <<>>
           \/ \E i \in DOMAIN weighted_args : weighted_args[i] < 0
        THEN draw.raised = Some("ValueError") /\ IsNone(draw.called)
        ELSE (\E i \in DOMAIN weighted_args : weighted_args[i] > 0) =>
                /\ IsNone(draw.raised)
                /\ ~IsNone(draw.called)
                /\ \A i \in DOMAIN weighted_args :
                      /\ draw.called = Some(i) <=>
                            /\ PrefixSum(i - 1) < draw.rand[1]
                            /\ draw.rand[1] <= PrefixSum(i)
                      /\ Cardinality(DrawsOf(i)) = weighted_args[i]
                      /\ weighted_args[i] = 0 => draw.called # Some(i)

\* a draw that falls on the end of the first group, before a group of weight 0
C38_Witness ==
    /\ draw.pc = "done"
    /\ Len(weighted_args) = 3
    /\ weighted_args[1] > 0
    /\ weighted_args[2] = 0
    /\ weighted_args[3] > 0
    /\ draw.rand = Some(weighted_args[1])
    /\ draw.called = Some(1)

====
